---------------------------- MODULE Spec2Model ----------------------------
(***************************************************************************)
(* Story clustering and calm ranking of newslett-server.                   *)
(*                                                                         *)
(* The store holds Story documents, StorySource rows and Source documents. *)
(* Numbers that are JavaScript doubles in the source are exact rationals   *)
(* <<numerator, denominator>> here (floating point error is not modelled). *)
(* Dates are whole hours.  A title is the sequence of its whitespace-      *)
(* separated tokens, already lower case and free of punctuation.           *)
(***************************************************************************)
EXTENDS Integers, Sequences, FiniteSets, TLC

(***************************************************************************)
(* Exact rational arithmetic                                               *)
(***************************************************************************)
RECURSIVE GCD(_, _)
GCD(a, b) == IF b = 0 THEN a ELSE GCD(b, a % b)

Abs(i) == IF i < 0 THEN -i ELSE i

\* n/d in lowest terms with a positive denominator
Rat(n, d) ==
    LET s == IF d < 0 THEN -1 ELSE 1
        g == GCD(Abs(n), Abs(d))
    IN  <<(s * n) \div g, (s * d) \div g>>

RInt(i) == <<i, 1>>
RAdd(x, y) == Rat(x[1] * y[2] + y[1] * x[2], x[2] * y[2])
RSub(x, y) == Rat(x[1] * y[2] - y[1] * x[2], x[2] * y[2])
RMul(x, y) == Rat(x[1] * y[1], x[2] * y[2])
RLt(x, y) == x[1] * y[2] < y[1] * x[2]
RLe(x, y) == x[1] * y[2] <= y[1] * x[2]
RMin(x, y) == IF RLt(y, x) THEN y ELSE x
RMax(x, y) == IF RLt(x, y) THEN y ELSE x
RAbs(x) == <<Abs(x[1]), x[2]>>
RZero == <<0, 1>>
ROne == <<1, 1>>

\* Math.round(x * 1000) / 1000 ; Math.round(v) is floor(v + 1/2)
Round3(x) == Rat((2000 * x[1] + x[2]) \div (2 * x[2]), 1000)

(***************************************************************************)
(* Bounds of the model                                                     *)
(***************************************************************************)
\* articles processed in one behaviour, over all clusterArticles calls
MaxSteps == 3
\* store calls rejected in one behaviour
MaxFaults == 1
\* the clock stops this many hours after StartHour
Horizon == 72

\* the clock at Init, in hours; late enough for an article to be days old
StartHour == 4 * 24
\* the clock advances by one of these
TickSteps == {72}

(***************************************************************************)
(* Similarity engine (clusteringService.js)                                *)
(***************************************************************************)
SIMILARITY_THRESHOLD == Rat(65, 100)

stopwords ==
    {"the", "a", "an", "and", "or", "but", "in", "on", "at", "to", "for",
     "of", "with", "by", "from", "as", "is", "was", "are", "were", "been",
     "be", "have", "has", "had", "do", "does", "did", "will", "would", "could",
     "should", "may", "might", "must", "shall", "can", "need", "dare", "ought",
     "used", "said", "says", "that", "this", "these", "those", "what", "which",
     "who", "whom", "whose", "when", "where", "why", "how", "all", "each",
     "every", "both", "few", "more", "most", "other", "some", "such", "only",
     "own", "same", "than", "too", "very", "just", "also", "now", "here"}

\* the Set of significant words of a text: longer than 3, no stop word
extractWords(text) ==
    {text[i] : i \in {j \in 1..Len(text) : Len(text[j]) > 3 /\ text[j] \notin stopwords}}

\* !text is true of the empty string only
calculateSimilarity(text1, text2) ==
    IF text1 = <<>> \/ text2 = <<>> THEN RZero
    ELSE LET words1 == extractWords(text1)
             words2 == extractWords(text2)
         IN  IF words1 = {} \/ words2 = {} THEN RZero
             ELSE Rat(Cardinality(words1 \cap words2), Cardinality(words1 \cup words2))

\* the n-token windows over the tokens longer than 2, in order, repeats kept
extractPhrases(text, n) ==
    LET words == SelectSeq(text, LAMBDA w : Len(w) > 2)
    IN  [i \in 1..(IF Len(words) >= n THEN Len(words) - n + 1 ELSE 0) |->
            SubSeq(words, i, i + n - 1)]

calculateTitleSimilarity(title1, title2) ==
    LET similarity == calculateSimilarity(title1, title2)
        phrases1 == extractPhrases(title1, 3)
        phrases2 == extractPhrases(title2, 3)
        sharedPhrases ==
            Cardinality({i \in 1..Len(phrases1) :
                            \E j \in 1..Len(phrases2) : phrases2[j] = phrases1[i]})
        phraseBonus == RMin(Rat(sharedPhrases, 10), Rat(3, 10))
    IN  RMin(RAdd(similarity, phraseBonus), ROne)

\* an article similarity that skips the title gate
calculateArticleSimilarityUngated(article1, article2) ==
    RAdd(RMul(Rat(6, 10), calculateTitleSimilarity(article1.title, article2.title)),
         RMul(Rat(4, 10), calculateSimilarity(article1.description \o article1.content,
                                              article2.description \o article2.content)))

\* a missing title, description or content is the empty text; the texts
\* compared are description + ' ' + content
calculateArticleSimilarity(article1, article2) ==
    LET titleSim == calculateTitleSimilarity(article1.title, article2.title)
        contentSim == calculateSimilarity(article1.description \o article1.content,
                                          article2.description \o article2.content)
    IN  IF RLt(titleSim, Rat(3, 10)) THEN RZero
        ELSE RAdd(RMul(Rat(6, 10), titleSim), RMul(Rat(4, 10), contentSim))


(***************************************************************************)
(* Source registry (models/Source.js)                                      *)
(***************************************************************************)
KNOWN_SOURCE_SCORES ==
    {<<"Reuters", 95>>, <<"Associated Press", 95>>, <<"AFP", 90>>,
     <<"BBC", 90>>, <<"NPR", 85>>, <<"PBS", 85>>,
     <<"New York Times", 85>>, <<"Washington Post", 85>>,
     <<"Wall Street Journal", 85>>, <<"The Guardian", 80>>,
     <<"Los Angeles Times", 80>>,
     <<"CNN", 70>>, <<"Fox News", 65>>, <<"MSNBC", 65>>,
     <<"TechCrunch", 75>>, <<"The Verge", 75>>, <<"Wired", 80>>,
     <<"Ars Technica", 80>>,
     <<"Axios", 80>>, <<"Politico", 75>>, <<"The Hill", 70>>}

\* knownData?.score || 0.5
KnownScore(sourceName) ==
    IF \E k \in KNOWN_SOURCE_SCORES : k[1] = sourceName
    THEN Rat((CHOOSE k \in KNOWN_SOURCE_SCORES : k[1] = sourceName)[2], 100)
    ELSE Rat(1, 2)

HasSource(srcs, sourceName) == \E s \in srcs : s.name = sourceName
SourceDoc(srcs, sourceName) == CHOOSE s \in srcs : s.name = sourceName

(***************************************************************************)
(* The awaited store calls of the clustering path, in the order the code   *)
(* makes them.  The store may reject any one of them; "none" is the run in *)
(* which every call resolves.                                              *)
(***************************************************************************)
FailPoints ==
    {"none", "findLink", "findStories", "findById", "srcFind", "srcCreate",
     "srcSave", "findExisting", "createStory", "createLink", "calcDiversity",
     "calcCredibility", "save", "recalcFind", "recalcSave"}

\* Source.getOrCreate: findOne, create when absent, then save the counters.
\* lastSeenAt and totalArticles are read by nothing in the core and are left out.
getOrCreate(srcs, sourceName, fail) ==
    LET found == HasSource(srcs, sourceName)
        made == IF found THEN srcs
                ELSE srcs \cup {[name |-> sourceName,
                                 credibilityScore |-> KnownScore(sourceName)]}
    IN  IF fail = "srcFind" \/ (~found /\ fail = "srcCreate")
        THEN [sources |-> srcs, threw |-> TRUE, credibilityScore |-> RZero]
        ELSE [sources |-> made, threw |-> (fail = "srcSave"),
              credibilityScore |-> SourceDoc(made, sourceName).credibilityScore]

(***************************************************************************)
(* StorySource statics (models/StorySource.js)                             *)
(***************************************************************************)
sourceCategories ==
    {<<"Reuters", "wire">>, <<"AP", "wire">>, <<"AFP", "wire">>,
     <<"BBC", "public">>, <<"NPR", "public">>, <<"PBS", "public">>,
     <<"CNN", "cable">>, <<"Fox News", "cable">>, <<"MSNBC", "cable">>,
     <<"New York Times", "newspaper">>, <<"Washington Post", "newspaper">>,
     <<"Wall Street Journal", "newspaper">>, <<"The Guardian", "newspaper">>,
     <<"TechCrunch", "tech">>, <<"The Verge", "tech">>, <<"Wired", "tech">>}

SourceCategory(sourceName) ==
    IF \E k \in sourceCategories : k[1] = sourceName
    THEN (CHOOSE k \in sourceCategories : k[1] = sourceName)[2]
    ELSE "other"

RowsOf(rows, storyId) == {r \in rows : r.storyId = storyId}

calculateSourceDiversity(rows, storyId) ==
    LET srcNames == {r.sourceName : r \in RowsOf(rows, storyId)}
        categoriesRepresented == {SourceCategory(s) : s \in srcNames}
    IN  RMin(Rat(Cardinality(categoriesRepresented), 6), ROne)

RECURSIVE SumCredibility(_)
SumCredibility(rs) ==
    IF rs = {} THEN RZero
    ELSE LET r == CHOOSE x \in rs : TRUE
         IN  RAdd(r.credibilityScore, SumCredibility(rs \ {r}))

calculateAverageCredibility(rows, storyId) ==
    LET mine == RowsOf(rows, storyId)
    IN  IF mine = {} THEN Rat(1, 2)
        ELSE RMul(SumCredibility(mine), Rat(1, Cardinality(mine)))

(***************************************************************************)
(* Importance score: calmRankingService.calculateImportanceScore and       *)
(* Story.recalculateImportance                                             *)
(***************************************************************************)
MAX_RECENCY_HOURS == 24

\* Math.max(0, 1 - ageHours / 24), ageHours = now - firstSeen
RecencyScore(firstSeen, clock) ==
    RMax(RZero, RSub(ROne, Rat(clock - firstSeen, MAX_RECENCY_HOURS)))

\* Math.min(sourceCount / 10, 1)
SourceScore(sourceCount) == RMin(Rat(sourceCount, 10), ROne)

WeightedSum(sourceScore, diversityScore, credibilityScore, recencyScore) ==
    RAdd(RAdd(RMul(sourceScore, Rat(30, 100)), RMul(diversityScore, Rat(25, 100))),
         RAdd(RMul(credibilityScore, Rat(25, 100)), RMul(recencyScore, Rat(20, 100))))

\* x || dflt on a number: 0 is falsy
OrDefault(x, dflt) == IF x[1] = 0 THEN dflt ELSE x

calculateImportanceScore(story, clock) ==
    Round3(WeightedSum(SourceScore(story.sourceCount),
                       OrDefault(story.sourceDiversity, RZero),
                       OrDefault(story.averageCredibility, Rat(1, 2)),
                       RecencyScore(story.firstSeen, clock)))

\* the value Story.recalculateImportance stores: the same sum, not rounded
RecalculatedScore(story, clock) ==
    WeightedSum(SourceScore(story.sourceCount), story.sourceDiversity,
                story.averageCredibility, RecencyScore(story.firstSeen, clock))

(***************************************************************************)
(* The articles the ingestion pipeline has stored (News documents), all on *)
(* one event: a Reuters article, a BBC article dated four days after       *)
(* StartHour, and a second Reuters article and a New York Times article,   *)
(* both published three days before StartHour.  News requires title, url   *)
(* and source and defaults publishedAt, and saveArticles stores the date   *)
(* the news API reports.  A fifth article, of the BBC, rewords the title   *)
(* of the first; it is assigned on its own.                                *)
(***************************************************************************)
News ==
    <<[_id |-> 1, title |-> <<"senate", "passes", "infrastructure", "bill">>,
       source |-> "Reuters", category |-> "business", publishedAt |-> StartHour],
      [_id |-> 2, title |-> <<"senate", "passes", "infrastructure", "bill", "today">>,
       source |-> "BBC", category |-> "business", publishedAt |-> StartHour + 96],
      [_id |-> 3, title |-> <<"senate", "passes", "infrastructure", "bill", "vote">>,
       source |-> "Reuters", category |-> "business", publishedAt |-> StartHour - 72],
      [_id |-> 4, title |-> <<"senate", "passes", "infrastructure", "bill", "finally">>,
       source |-> "New York Times", category |-> "business",
       publishedAt |-> StartHour - 72],
      [_id |-> 5, title |-> <<"senate", "approves", "infrastructure", "bill">>,
       source |-> "BBC", category |-> "business", publishedAt |-> StartHour]>>

\* the articles the batches and the concurrent calls are drawn from
ArticleIds == 1..4

RECURSIVE SeqsUpTo(_, _)
SeqsUpTo(S, n) ==
    IF n = 0 THEN {<<>>}
    ELSE LET shorter == SeqsUpTo(S, n - 1)
         IN  shorter \cup {Append(q, x) : q \in shorter, x \in S}

\* the arrays clusterArticles may be handed
Batches == SeqsUpTo(ArticleIds, MaxSteps) \ {<<>>}

(***************************************************************************)
(* State                                                                   *)
(***************************************************************************)
VARIABLES
    stories,        \* the Story collection in store order; _id is the index
    storySources,   \* the StorySource collection
    sources,        \* the Source collection
    now,            \* Date.now(), in hours
    cluster,        \* the running clusterArticles call: pc, articles, i, results
    budget,         \* articles processed (steps) and store calls rejected (faults)
    adders,         \* the concurrent addArticleToStory calls
    refresher,      \* the concurrent refreshAllScores call
    ranking,        \* the last calculateImportanceScore call: time and result
    call            \* the last call of another function: arguments and result

vars == <<stories, storySources, sources, now, cluster, budget, adders, refresher,
          ranking, call>>

NoResults == [newStories |-> 0, mergedArticles |-> 0, skipped |-> 0, errors |-> 0]

(***************************************************************************)
(* Clustering engine (clusteringService.js)                                *)
(***************************************************************************)
\* article.mood || 'neutral': an article need not carry a mood
ArticleMood(article) ==
    IF "mood" \in DOMAIN article THEN article.mood ELSE "neutral"

\* a new story whose importanceScore is the whole credibility
NewStoryUnweighted(article, credibilityScore, clock) ==
    [canonicalTitle |-> article.title,
     mood |-> ArticleMood(article),
     category |-> article.category,
     sourceCount |-> 1,
     sourceDiversity |-> RZero,
     averageCredibility |-> credibilityScore,
     importanceScore |-> credibilityScore,
     firstSeen |-> article.publishedAt,
     lastUpdated |-> clock]

\* the Story document createStoryFromArticle creates
NewStory(article, credibilityScore, clock) ==
    [canonicalTitle |-> article.title,
     mood |-> ArticleMood(article),
     category |-> article.category,
     sourceCount |-> 1,
     sourceDiversity |-> RZero,
     averageCredibility |-> credibilityScore,
     importanceScore |-> RMul(credibilityScore, Rat(25, 100)),
     firstSeen |-> article.publishedAt,
     lastUpdated |-> clock]

\* the StorySource row both paths create
NewLink(storyId, article, credibilityScore, isPrimary, similarityScore) ==
    [storyId |-> storyId,
     articleId |-> article._id,
     sourceName |-> article.source,
     credibilityScore |-> credibilityScore,
     isPrimary |-> isPrimary,
     similarityScore |-> similarityScore]

\* a match rule that accepts a similarity equal to the threshold
findMatchingStoryAtLeast(strs, article, clock) ==
    LET recentStories == {i \in 1..Len(strs) :
                            /\ strs[i].firstSeen >= clock - 48
                            /\ strs[i].category = article.category}
        sim(i) == calculateTitleSimilarity(article.title, strs[i].canonicalTitle)
        above == {i \in recentStories : RLe(SIMILARITY_THRESHOLD, sim(i))}
        best == {i \in above : \A j \in above : RLe(sim(j), sim(i))}
    IN  IF above = {} THEN [storyId |-> 0, score |-> RZero]
        ELSE LET first == CHOOSE i \in best : \A j \in best : i <= j
             IN  [storyId |-> first, score |-> sim(first)]

\* Story.find({firstSeen >= now - 48h, category}) and the best-match loop:
\* the first story in store order among those of the highest similarity
\* above the threshold; storyId 0 is "no match"
findMatchingStory(strs, article, clock) ==
    LET recentStories == {i \in 1..Len(strs) :
                            /\ strs[i].firstSeen >= clock - 48
                            /\ strs[i].category = article.category}
        sim(i) == calculateTitleSimilarity(article.title, strs[i].canonicalTitle)
        above == {i \in recentStories : RLt(SIMILARITY_THRESHOLD, sim(i))}
        best == {i \in above : \A j \in above : RLe(sim(j), sim(i))}
    IN  IF above = {} THEN [storyId |-> 0, score |-> RZero]
        ELSE LET first == CHOOSE i \in best : \A j \in best : i <= j
             IN  [storyId |-> first, score |-> sim(first)]

createStoryFromArticle(st, article, clock, fail) ==
    LET src == getOrCreate(st.sources, article.source, fail)
        story == NewStory(article, src.credibilityScore, clock)
        created == Append(st.stories, story)
        link == NewLink(Len(created), article, src.credibilityScore, TRUE, ROne)
    IN  IF src.threw \/ fail = "createStory"
        THEN [stories |-> st.stories, storySources |-> st.storySources,
              sources |-> src.sources, threw |-> TRUE, linked |-> FALSE, counts |-> FALSE]
        ELSE IF fail = "createLink"
        THEN [stories |-> created, storySources |-> st.storySources,
              sources |-> src.sources, threw |-> TRUE, linked |-> FALSE, counts |-> TRUE]
        ELSE [stories |-> created, storySources |-> st.storySources \cup {link},
              sources |-> src.sources, threw |-> FALSE, linked |-> TRUE, counts |-> TRUE]

\* lines 226-232: the in-memory document after the statistics update
UpdatedStory(story, rows, storyId, clock) ==
    [story EXCEPT !.sourceCount = @ + 1,
                  !.lastUpdated = clock,
                  !.sourceDiversity = calculateSourceDiversity(rows, storyId),
                  !.averageCredibility = calculateAverageCredibility(rows, storyId)]

\* Story.recalculateImportance: findById, compute, save
recalculateImportance(strs, storyId, clock) ==
    IF storyId \notin 1..Len(strs) THEN strs
    ELSE [strs EXCEPT ![storyId].importanceScore = RecalculatedScore(strs[storyId], clock)]

\* the unique index of StorySource: {storyId, articleId}
ViolatesUniqueIndex(rows, link) ==
    \E r \in rows : r.storyId = link.storyId /\ r.articleId = link.articleId

\* a lookup that never finds the source's row
SourceNeverLinked(rows, storyId, sourceName) == FALSE

\* findOne({storyId, sourceName})
SourceAlreadyLinked(rows, storyId, sourceName) ==
    \E r \in rows : r.storyId = storyId /\ r.sourceName = sourceName

addArticleToStory(st, storyId, article, similarityScore, clock, fail) ==
    LET unchanged == [stories |-> st.stories, storySources |-> st.storySources,
                      sources |-> st.sources, threw |-> TRUE, linked |-> FALSE,
                      counts |-> FALSE]
    IN  IF fail = "findById" \/ storyId \notin 1..Len(st.stories) THEN unchanged
        ELSE
        LET src == getOrCreate(st.sources, article.source, fail)
            link == NewLink(storyId, article, src.credibilityScore, FALSE, similarityScore)
            rows == st.storySources \cup {link}
            doc == UpdatedStory(st.stories[storyId], rows, storyId, clock)
            saved == [st.stories EXCEPT ![storyId] = doc]
        IN  IF src.threw \/ fail = "findExisting"
            THEN [unchanged EXCEPT !.sources = src.sources]
            ELSE IF SourceAlreadyLinked(st.storySources, storyId, article.source)
            THEN [unchanged EXCEPT !.sources = src.sources, !.threw = FALSE]
            ELSE IF fail = "createLink" \/ ViolatesUniqueIndex(st.storySources, link)
            THEN [unchanged EXCEPT !.sources = src.sources]
            ELSE IF fail \in {"calcDiversity", "calcCredibility", "save"}
            THEN [unchanged EXCEPT !.sources = src.sources, !.storySources = rows,
                                   !.linked = TRUE]
            ELSE IF fail \in {"recalcFind", "recalcSave"}
            THEN [stories |-> saved, storySources |-> rows, sources |-> src.sources,
                  threw |-> TRUE, linked |-> TRUE, counts |-> TRUE]
            ELSE [stories |-> recalculateImportance(saved, storyId, clock),
                  storySources |-> rows, sources |-> src.sources,
                  threw |-> FALSE, linked |-> TRUE, counts |-> TRUE]

\* a loop whose catch block counts nothing
TallyWithoutErrors(results, outcome) ==
    CASE outcome = "skipped" -> [results EXCEPT !.skipped = @ + 1]
      [] outcome = "merged" -> [results EXCEPT !.mergedArticles = @ + 1]
      [] outcome = "new" -> [results EXCEPT !.newStories = @ + 1]
      [] outcome = "error" -> results

\* the results field one loop iteration increments
Tally(results, outcome) ==
    CASE outcome = "skipped" -> [results EXCEPT !.skipped = @ + 1]
      [] outcome = "merged" -> [results EXCEPT !.mergedArticles = @ + 1]
      [] outcome = "new" -> [results EXCEPT !.newStories = @ + 1]
      [] outcome = "error" -> [results EXCEPT !.errors = @ + 1]

\* the body of the for loop of clusterArticles (lines 259-284) for one article
clusterOne(st, article, clock, fail) ==
    LET same == [stories |-> st.stories, storySources |-> st.storySources,
                 sources |-> st.sources, outcome |-> "error", storyId |-> 0,
                 linked |-> FALSE, counts |-> FALSE]
        existingLink == \E r \in st.storySources : r.articleId = article._id
        match == findMatchingStory(st.stories, article, clock)
    IN  IF fail = "findLink" THEN same
        ELSE IF existingLink THEN [same EXCEPT !.outcome = "skipped"]
        ELSE IF fail = "findStories" THEN same
        ELSE IF match.storyId # 0
        THEN LET r == addArticleToStory(st, match.storyId, article, match.score,
                                        clock, fail)
             IN  [stories |-> r.stories, storySources |-> r.storySources,
                  sources |-> r.sources,
                  outcome |-> IF r.threw THEN "error" ELSE "merged",
                  storyId |-> match.storyId, linked |-> r.linked, counts |-> r.counts]
        ELSE LET r == createStoryFromArticle(st, article, clock, fail)
             IN  [stories |-> r.stories, storySources |-> r.storySources,
                  sources |-> r.sources,
                  outcome |-> IF r.threw THEN "error" ELSE "new",
                  storyId |-> IF Len(r.stories) > Len(st.stories)
                              THEN Len(r.stories) ELSE 0,
                  linked |-> r.linked, counts |-> r.counts]

Store == [stories |-> stories, storySources |-> storySources, sources |-> sources]

RowsOfArticle(rows, articleId) == Cardinality({r \in rows : r.articleId = articleId})

(***************************************************************************)
(* Actions: calls made one after another                                   *)
(***************************************************************************)
\* clusterArticles(articles) is called: results start at zero
StartBatch(articles) ==
    /\ cluster.pc # "loop"
    /\ Len(articles) <= MaxSteps - budget.steps
    /\ cluster' = [pc |-> "loop", articles |-> articles, i |-> 1,
                   results |-> NoResults, storiesAtCall |-> Len(stories),
                   n |-> Len(articles)]
    /\ UNCHANGED <<stories, storySources, sources, now, budget, adders, refresher, ranking, call>>

\* one iteration of the loop; the store may reject the call named by fail
ProcessArticle(fail) ==
    /\ cluster.pc = "loop"
    /\ cluster.i <= Len(cluster.articles)
    /\ fail # "none" => budget.faults < MaxFaults
    /\ \E r \in {clusterOne(Store, News[cluster.articles[cluster.i]], now, fail)} :
           /\ budget' = [steps |-> budget.steps + 1,
                         faults |-> budget.faults + IF fail = "none" THEN 0 ELSE 1]
           /\ stories' = r.stories
           /\ storySources' = r.storySources
           /\ sources' = r.sources
           /\ cluster' = [cluster EXCEPT !.i = @ + 1,
                                         !.results = Tally(@, r.outcome)]
    /\ UNCHANGED <<now, adders, refresher, ranking, call>>

\* the loop is over: clusterArticles returns results
ReturnResults ==
    /\ cluster.pc = "loop"
    /\ cluster.i > Len(cluster.articles)
    /\ cluster' = [cluster EXCEPT !.pc = "returned", !.articles = <<>>, !.i = 0]
    /\ UNCHANGED <<stories, storySources, sources, now, budget, adders, refresher, ranking, call>>

\* time passes between calls (a call takes no time on the scale of hours)
Tick(d) ==
    /\ cluster.pc # "loop"
    /\ now + d <= StartHour + Horizon
    /\ now' = now + d
    /\ UNCHANGED <<stories, storySources, sources, cluster, budget, adders, refresher,
                   ranking, call>>

\* the two concurrent clusterArticles calls
Adders == {"A", "B"}

IdleAdder == [pc |-> "idle", article |-> 0, storyId |-> 0, similarityScore |-> RZero,
              credibilityScore |-> RZero, story |-> <<>>, recalc |-> <<>>,
              linked |-> FALSE, outcome |-> "none"]
IdleRefresher == [pc |-> "idle", docs |-> <<>>, i |-> 0, updated |-> 0, calls |-> 0]
NoRanking == [pc |-> "idle", at |-> 0, score |-> RZero]
NoCall == [op |-> "none"]

Init ==
    /\ stories = <<>>
    /\ storySources = {}
    /\ sources = {}
    /\ now = StartHour
    /\ budget = [steps |-> 0, faults |-> 0]
    /\ cluster = [pc |-> "idle", articles |-> <<>>, i |-> 0, results |-> NoResults,
                  storiesAtCall |-> 0, n |-> 0]
    /\ adders = [p \in Adders |-> IdleAdder]
    /\ refresher = IdleRefresher
    /\ ranking = NoRanking
    /\ call = NoCall

Next ==
    \/ \E articles \in Batches : StartBatch(articles)
    \/ \E fail \in FailPoints : ProcessArticle(fail)
    \/ ReturnResults
    \/ \E d \in TickSteps : Tick(d)

Spec == Init /\ [][Next]_vars

(***************************************************************************)
(* Properties of the calls made one after another                          *)
(***************************************************************************)
\* C1: after any sequence of clusterArticles calls run one after another
\* there is at most one StorySource row for each (storyId, sourceName)
\* pair; a second article of a source the story already has is dropped.
C1_OneRowPerStoryAndSource ==
    \A r1 \in storySources : \A r2 \in storySources :
        (r1.storyId = r2.storyId /\ r1.sourceName = r2.sourceName) => r1 = r2

\* an article of the running batch was matched to a story (no error, no
\* skip in the batch) and has no row, while its source has one
C1_SecondArticleDropped ==
    /\ cluster.pc = "loop"
    /\ cluster.results.errors = 0
    /\ cluster.results.skipped = 0
    /\ cluster.results.mergedArticles > 0
    /\ \E k \in 1..(cluster.i - 1) :
           LET article == News[cluster.articles[k]]
           IN  /\ RowsOfArticle(storySources, article._id) = 0
               /\ \E r \in storySources : r.sourceName = article.source

\* C2: in every state reached by running clusterArticles calls one after
\* another, each Story's sourceCount equals the number of StorySource rows
\* whose storyId is that story.
C2_SourceCountIsRowCount ==
    \A id \in 1..Len(stories) :
        stories[id].sourceCount = Cardinality(RowsOf(storySources, id))

\* C3: immediately after an addArticleToStory call that links an article,
\* the story's persisted importanceScore equals what calculateImportanceScore
\* (the weighted sum rounded to 3 decimals) returns for the story's persisted
\* sourceCount, sourceDiversity, averageCredibility and firstSeen at that
\* same time.
C3_ScoreFreshAfterLink ==
    [][\A id \in 1..Len(stories) :
          (/\ cluster'.results.mergedArticles = cluster.results.mergedArticles + 1
           /\ RowsOf(storySources', id) # RowsOf(storySources, id))
          => stories'[id].importanceScore
                 = calculateImportanceScore(stories'[id], now')]_vars

\* C4: processing the same article a second time through clusterArticles,
\* after the first run has finished, creates no second StorySource row for
\* it and does not increment any story's sourceCount again.  The article
\* was processed before when it has a row, or when a call that has returned
\* made a story from it (titles identify the articles of News).
C4_SecondRunChangesNothing ==
    [][(/\ cluster.pc = "loop"
        /\ cluster'.i = cluster.i + 1
        /\ \/ RowsOfArticle(storySources, cluster.articles[cluster.i]) > 0
           \/ \E id \in 1..cluster.storiesAtCall :
                  stories[id].canonicalTitle = News[cluster.articles[cluster.i]].title)
       => /\ RowsOfArticle(storySources', cluster.articles[cluster.i]) <= 1
          /\ \A id \in 1..Len(stories) :
                 stories'[id].sourceCount = stories[id].sourceCount]_vars

\* C5: a batch given to clusterArticles that holds two articles of the same
\* category from different sources whose titles have titleSimilarity above
\* 0.65, with no pre-existing story, creates exactly one Story: the later
\* article is merged into the story created by the earlier one.  Stated at
\* the end of the loop, for the batches of those two articles in which
\* nothing threw.
C5_OneStoryForSimilarPair ==
    (/\ cluster.pc = "loop"
     /\ cluster.i > Len(cluster.articles)
     /\ Len(cluster.articles) = 2
     /\ cluster.storiesAtCall = 0
     /\ cluster.results.errors = 0
     /\ News[cluster.articles[1]].category = News[cluster.articles[2]].category
     /\ News[cluster.articles[1]].source # News[cluster.articles[2]].source
     /\ RLt(SIMILARITY_THRESHOLD,
            calculateTitleSimilarity(News[cluster.articles[2]].title,
                                     News[cluster.articles[1]].title)))
    => /\ Len(stories) = 1
       /\ cluster.results.newStories = 1
       /\ cluster.results.mergedArticles = 1

\* C6: for every story the clustering engine produces from the stored
\* articles (firstSeen taken from the article's publishedAt) and every
\* evaluation time, the importance score calculateImportanceScore computes
\* lies in [0,1].
C6_ScoreWithinUnitInterval ==
    \A id \in 1..Len(stories) :
        /\ RLe(RZero, calculateImportanceScore(stories[id], now))
        /\ RLe(calculateImportanceScore(stories[id], now), ROne)

\* C10: in clusterArticles an exception raised while processing one article
\* is caught and counted in errors, every later article of the batch is
\* still processed, and the returned counts satisfy newStories +
\* mergedArticles + skipped + errors = number of articles in the batch.
\* During the loop the counts add up to the number of articles processed so
\* far, and the call returns only after the last one.
C10_CountsAddUp ==
    LET total == cluster.results.newStories + cluster.results.mergedArticles
                 + cluster.results.skipped + cluster.results.errors
    IN  /\ cluster.pc = "loop" =>
               /\ total = cluster.i - 1
               /\ cluster.i <= cluster.n + 1
        /\ cluster.pc = "returned" => total = cluster.n

\* the loop of a batch of two ends with the first article counted as an
\* error and the second one made into the only story
C10_LaterArticleProcessedAfterError ==
    /\ cluster.pc = "loop"
    /\ cluster.i > Len(cluster.articles)
    /\ Len(cluster.articles) = 2
    /\ cluster.articles[1] # cluster.articles[2]
    /\ cluster.results.errors = 1
    /\ cluster.results.newStories = 1
    /\ cluster.storiesAtCall = 0
    /\ Len(stories) = 1
    /\ stories[1].canonicalTitle = News[cluster.articles[2]].title

\* C12: in every reachable state each Story's persisted sourceDiversity lies
\* in [0,1] and equals (number of distinct diversity categories among the
\* source names linked to the story) / 6; in particular a story whose
\* linked sources all fall into one category has sourceDiversity = 1/6.
C12_DiversityIsCategoriesOverSix ==
    \A id \in 1..Len(stories) :
        /\ RLe(RZero, stories[id].sourceDiversity)
        /\ RLe(stories[id].sourceDiversity, ROne)
        /\ stories[id].sourceDiversity
               = Rat(Cardinality({SourceCategory(r.sourceName) :
                                     r \in RowsOf(storySources, id)}), 6)

\* C13: when an article matches no existing story, assigning it creates
\* exactly one new Story with sourceCount = 1, sourceDiversity = 0,
\* averageCredibility equal to the source's credibilityScore and
\* importanceScore equal to that credibilityScore times 0.25 (0.2375 for a
\* Reuters article), together with one StorySource row for the article.
\* Stated of every iteration of the loop: an article without a row and
\* without a match is counted as a new story when no store call is
\* rejected; a counted new story is one appended story with exactly one
\* row, the article's; and any story an iteration appends has these fields.
C13_NewStoryFromUnmatchedArticle ==
    [][(cluster.pc = "loop" /\ cluster'.i = cluster.i + 1) =>
         LET article == News[cluster.articles[cluster.i]]
             unmatched == /\ RowsOfArticle(storySources, article._id) = 0
                          /\ findMatchingStory(stories, article, now).storyId = 0
             new == Len(stories) + 1
         IN  /\ (unmatched /\ budget'.faults = budget.faults)
                    => cluster'.results.newStories = cluster.results.newStories + 1
             /\ cluster'.results.newStories = cluster.results.newStories + 1
                    => /\ unmatched
                       /\ Len(stories') = new
                       /\ RowsOf(storySources', new)
                              = {r \in storySources' : r.articleId = article._id}
                       /\ RowsOfArticle(storySources', article._id) = 1
                       /\ \A r \in RowsOf(storySources', new) : r.isPrimary
             /\ Len(stories') # Len(stories)
                    => /\ unmatched
                       /\ Len(stories') = new
                       /\ stories'[new].sourceCount = 1
                       /\ stories'[new].sourceDiversity = RZero
                       /\ stories'[new].averageCredibility
                              = SourceDoc(sources', article.source).credibilityScore
                       /\ stories'[new].importanceScore
                              = RMul(SourceDoc(sources', article.source).credibilityScore,
                                     Rat(25, 100))
                       /\ article.source = "Reuters"
                              => stories'[new].importanceScore = Rat(2375, 10000)]_vars

\* a Reuters article was counted as a new story: the only story, with
\* importanceScore 0.2375 and one row
C13_ReutersStoryCreated ==
    /\ cluster.pc = "loop"
    /\ cluster.results.newStories = 1
    /\ cluster.results.errors = 0
    /\ Len(stories) = 1
    /\ Cardinality(storySources) = 1
    /\ \A r \in storySources : r.sourceName = "Reuters" /\ r.storyId = 1
    /\ stories[1].sourceCount = 1
    /\ stories[1].importanceScore = Rat(2375, 10000)

\* C24: in every reachable state, including after a per-article step of
\* clusterArticles has failed part-way, every Story has exactly one
\* StorySource row with isPrimary = true and similarityScore 1.0, and every
\* other row of the story has isPrimary = false.
C24_OnePrimaryRowPerStory ==
    \A id \in 1..Len(stories) :
        /\ Cardinality({r \in RowsOf(storySources, id) : r.isPrimary}) = 1
        /\ \A r \in RowsOf(storySources, id) : r.isPrimary => r.similarityScore = ROne

(***************************************************************************)
(* calculateImportanceScore as a function of the story document: the       *)
(* ranking service is handed one stored story and scores it as time passes *)
(***************************************************************************)
\* the largest sourceCount of a scored story (the cap of the score is 10)
MaxSourceCount == 11
\* the scored story is at most this many half days old
MaxHalfDays == 3

Diversities == {Rat(k, 6) : k \in 0..6}
Credibilities == {RZero, Rat(1, 2), Rat(85, 100), Rat(95, 100), ROne}

ScoredStories ==
    {[canonicalTitle |-> News[1].title, category |-> News[1].category,
      sourceCount |-> sc, sourceDiversity |-> div, averageCredibility |-> cred,
      importanceScore |-> RZero, firstSeen |-> StartHour, lastUpdated |-> StartHour] :
        sc \in 0..MaxSourceCount, div \in Diversities, cred \in Credibilities}

InitScore ==
    /\ \E story \in ScoredStories : stories = <<story>>
    /\ storySources = {}
    /\ sources = {}
    /\ now = StartHour
    /\ budget = [steps |-> 0, faults |-> 0]
    /\ cluster = [pc |-> "idle", articles |-> <<>>, i |-> 0, results |-> NoResults,
                  storiesAtCall |-> 0, n |-> 0]
    /\ adders = [p \in Adders |-> IdleAdder]
    /\ refresher = IdleRefresher
    /\ ranking = NoRanking
    /\ call = NoCall

\* calmRankingService.calculateImportanceScore(story) at Date.now() = now
ScoreStory ==
    /\ ranking' = [pc |-> "scored", at |-> now,
                   score |-> calculateImportanceScore(stories[1], now)]
    /\ UNCHANGED <<stories, storySources, sources, now, cluster, budget, adders,
                   refresher, call>>

\* twelve hours pass
HalfDay ==
    /\ now + 12 <= StartHour + 12 * MaxHalfDays
    /\ now' = now + 12
    /\ UNCHANGED <<stories, storySources, sources, cluster, budget, adders, refresher,
                   ranking, call>>

NextScore ==
    \/ ScoreStory
    \/ HalfDay

SpecScore == InitScore /\ [][NextScore]_vars

\* C7: for every story with sourceCount >= 0 and sourceDiversity and
\* averageCredibility in [0,1], the score is 0.30*min(sourceCount/10, 1)
\* + 0.25*sourceDiversity + 0.25*averageCredibility
\* + 0.20*max(0, 1 - ageHours/24), rounded to 3 decimal places, ageHours
\* being the time since firstSeen.
C7_ScoreIsWeightedSum ==
    ranking.pc = "scored" =>
        LET story == stories[1]
            ageHours == ranking.at - story.firstSeen
            sum == RAdd(RAdd(RMul(Rat(30, 100), RMin(Rat(story.sourceCount, 10), ROne)),
                             RMul(Rat(25, 100), story.sourceDiversity)),
                        RAdd(RMul(Rat(25, 100), story.averageCredibility),
                             RMul(Rat(20, 100),
                                  RMax(RZero, RSub(ROne, Rat(ageHours, 24))))))
        IN  (/\ story.sourceCount >= 0
             /\ RLe(RZero, story.sourceDiversity) /\ RLe(story.sourceDiversity, ROne)
             /\ RLe(RZero, story.averageCredibility)
             /\ RLe(story.averageCredibility, ROne))
            => ranking.score = Round3(sum)

(***************************************************************************)
(* Concurrent calls: two clusterArticles batches of one article each       *)
(* (adders A and B) and one refreshAllScores call, interleaved at their    *)
(* awaits, on the store clusterArticles([article 1]) leaves behind.  The   *)
(* calls take no time on the scale of hours and no store call is rejected. *)
(***************************************************************************)
InitConc ==
    /\ \E r \in {createStoryFromArticle([stories |-> <<>>, storySources |-> {},
                                           sources |-> {}], News[1], StartHour, "none")} :
           /\ stories = r.stories
           /\ storySources = r.storySources
           /\ sources = r.sources
    /\ now = StartHour
    /\ budget = [steps |-> 1, faults |-> 0]
    /\ cluster = [pc |-> "returned", articles |-> <<>>, i |-> 0,
                  results |-> [NoResults EXCEPT !.newStories = 1],
                  storiesAtCall |-> 0, n |-> 1]
    /\ adders = [p \in Adders |-> IdleAdder]
    /\ refresher = IdleRefresher
    /\ ranking = NoRanking
    /\ call = NoCall

\* clusterArticles line 262: StorySource.findOne({articleId})
AdderFindLink(p, a) ==
    /\ adders[p].pc = "idle"
    /\ adders' = [adders EXCEPT ![p] =
                      IF \E r \in storySources : r.articleId = a
                      THEN [@ EXCEPT !.pc = "done", !.article = a, !.outcome = "skipped"]
                      ELSE [@ EXCEPT !.pc = "findStories", !.article = a]]
    /\ UNCHANGED <<stories, storySources, sources, now, cluster, budget, refresher,
                   ranking, call>>

\* clusterArticles lines 269-273: findMatchingStory, then the call of
\* addArticleToStory (every article of News matches the story of InitConc)
AdderFindMatch(p) ==
    /\ adders[p].pc = "findStories"
    /\ \E match \in {findMatchingStory(stories, News[adders[p].article], now)} :
           /\ match.storyId # 0
           /\ adders' = [adders EXCEPT ![p].pc = "findById",
                                       ![p].storyId = match.storyId,
                                       ![p].similarityScore = match.score]
    /\ UNCHANGED <<stories, storySources, sources, now, cluster, budget, refresher,
                   ranking, call>>

\* addArticleToStory line 196: the story document is loaded
AdderFindById(p) ==
    /\ adders[p].pc = "findById"
    /\ adders' = [adders EXCEPT ![p].pc = "getOrCreate",
                                ![p].story = stories[adders[p].storyId]]
    /\ UNCHANGED <<stories, storySources, sources, now, cluster, budget, refresher,
                   ranking, call>>

\* line 200: Source.getOrCreate, taken as one step
AdderGetOrCreate(p) ==
    /\ adders[p].pc = "getOrCreate"
    /\ \E src \in {getOrCreate(sources, News[adders[p].article].source, "none")} :
           /\ sources' = src.sources
           /\ adders' = [adders EXCEPT ![p].pc = "findExisting",
                                       ![p].credibilityScore = src.credibilityScore]
    /\ UNCHANGED <<stories, storySources, now, cluster, budget, refresher, ranking, call>>

\* lines 203-211: findOne({storyId, sourceName}); a hit returns the story
AdderFindExisting(p) ==
    /\ adders[p].pc = "findExisting"
    /\ adders' = [adders EXCEPT ![p] =
                      IF SourceAlreadyLinked(storySources, @.storyId,
                                             News[@.article].source)
                      THEN [@ EXCEPT !.pc = "done", !.outcome = "merged"]
                      ELSE [@ EXCEPT !.pc = "createLink"]]
    /\ UNCHANGED <<stories, storySources, sources, now, cluster, budget, refresher,
                   ranking, call>>

\* lines 214-227: StorySource.create (a duplicate key of the unique index
\* throws), then sourceCount += 1 and lastUpdated on the loaded document
AdderCreateLink(p) ==
    /\ adders[p].pc = "createLink"
    /\ \E link \in {NewLink(adders[p].storyId, News[adders[p].article],
                             adders[p].credibilityScore, FALSE,
                             adders[p].similarityScore)} :
           IF ViolatesUniqueIndex(storySources, link)
           THEN /\ adders' = [adders EXCEPT ![p].pc = "done", ![p].outcome = "error"]
                /\ UNCHANGED storySources
           ELSE /\ storySources' = storySources \cup {link}
                /\ adders' = [adders EXCEPT
                                  ![p].pc = "calcDiversity",
                                  ![p].linked = TRUE,
                                  ![p].story = [@ EXCEPT !.sourceCount = @ + 1,
                                                         !.lastUpdated = now]]
    /\ UNCHANGED <<stories, sources, now, cluster, budget, refresher, ranking, call>>

\* line 230: await StorySource.calculateSourceDiversity(storyId)
AdderCalcDiversity(p) ==
    /\ adders[p].pc = "calcDiversity"
    /\ adders' = [adders EXCEPT
                      ![p].pc = "calcCredibility",
                      ![p].story = [@ EXCEPT !.sourceDiversity =
                          calculateSourceDiversity(storySources, adders[p].storyId)]]
    /\ UNCHANGED <<stories, storySources, sources, now, cluster, budget, refresher,
                   ranking, call>>

\* line 231: await StorySource.calculateAverageCredibility(storyId)
AdderCalcCredibility(p) ==
    /\ adders[p].pc = "calcCredibility"
    /\ adders' = [adders EXCEPT
                      ![p].pc = "save",
                      ![p].story = [@ EXCEPT !.averageCredibility =
                          calculateAverageCredibility(storySources, adders[p].storyId)]]
    /\ UNCHANGED <<stories, storySources, sources, now, cluster, budget, refresher,
                   ranking, call>>

\* a save that adds one to the stored sourceCount
SavedStoryIncrementing(stored, doc) ==
    [stored EXCEPT !.sourceCount = @ + 1,
                   !.lastUpdated = doc.lastUpdated,
                   !.sourceDiversity = doc.sourceDiversity,
                   !.averageCredibility = doc.averageCredibility]

\* story.save() of line 234: the paths the call modified are set to the
\* values of the loaded document
SavedStory(stored, doc) ==
    [stored EXCEPT !.sourceCount = doc.sourceCount,
                   !.lastUpdated = doc.lastUpdated,
                   !.sourceDiversity = doc.sourceDiversity,
                   !.averageCredibility = doc.averageCredibility]

AdderSave(p) ==
    /\ adders[p].pc = "save"
    /\ stories' = [stories EXCEPT ![adders[p].storyId] = SavedStory(@, adders[p].story)]
    /\ adders' = [adders EXCEPT ![p].pc = "recalcFind"]
    /\ UNCHANGED <<storySources, sources, now, cluster, budget, refresher, ranking, call>>

\* Story.recalculateImportance, line 176: findById
AdderRecalcFind(p) ==
    /\ adders[p].pc = "recalcFind"
    /\ adders' = [adders EXCEPT ![p].pc = "recalcSave",
                                ![p].recalc = stories[adders[p].storyId]]
    /\ UNCHANGED <<stories, storySources, sources, now, cluster, budget, refresher,
                   ranking, call>>

\* Story.recalculateImportance, lines 185-200: the score of the loaded
\* document is saved; addArticleToStory returns, the loop counts a merge
AdderRecalcSave(p) ==
    /\ adders[p].pc = "recalcSave"
    /\ stories' = [stories EXCEPT ![adders[p].storyId].importanceScore =
                       RecalculatedScore(adders[p].recalc, now)]
    /\ adders' = [adders EXCEPT ![p].pc = "done", ![p].outcome = "merged"]
    /\ UNCHANGED <<storySources, sources, now, cluster, budget, refresher, ranking, call>>

RECURSIVE InOrder(_)
InOrder(ids) ==
    IF ids = {} THEN <<>>
    ELSE LET first == CHOOSE i \in ids : \A j \in ids : i <= j
         IN  <<first>> \o InOrder(ids \ {first})

\* a find without the cutoff: every story
AllStories(strs, clock) ==
    [k \in 1..Len(strs) |-> [id |-> k, doc |-> strs[k]]]

\* Story.find({firstSeen >= clock - 72h}): the documents, in store order
RecentStories(strs, clock) ==
    LET ids == InOrder({id \in 1..Len(strs) : strs[id].firstSeen >= clock - 72})
    IN  [k \in DOMAIN ids |-> [id |-> ids[k], doc |-> strs[ids[k]]]]

\* refreshAllScores lines 127-133
RefreshFind ==
    /\ refresher.pc = "idle"
    /\ refresher' = [pc |-> "loop", docs |-> RecentStories(stories, now),
                     i |-> 1, updated |-> 0, calls |-> refresher.calls + 1]
    /\ UNCHANGED <<stories, storySources, sources, now, cluster, budget, adders, ranking,
                   call>>

\* lines 135-143: one iteration; a score more than 0.01 off is saved
RefreshStory ==
    /\ refresher.pc = "loop"
    /\ refresher.i <= Len(refresher.docs)
    /\ \E story \in {refresher.docs[refresher.i]} :
       \E newScore \in {calculateImportanceScore(story.doc, now)} :
           IF RLt(Rat(1, 100), RAbs(RSub(story.doc.importanceScore, newScore)))
           THEN /\ stories' = [stories EXCEPT ![story.id].importanceScore = newScore]
                /\ refresher' = [refresher EXCEPT !.i = @ + 1, !.updated = @ + 1]
           ELSE /\ refresher' = [refresher EXCEPT !.i = @ + 1]
                /\ UNCHANGED stories
    /\ UNCHANGED <<storySources, sources, now, cluster, budget, adders, ranking, call>>

\* line 147: the call returns {updated, total}
RefreshReturn ==
    /\ refresher.pc = "loop"
    /\ refresher.i > Len(refresher.docs)
    /\ refresher' = [refresher EXCEPT !.pc = "done"]
    /\ UNCHANGED <<stories, storySources, sources, now, cluster, budget, adders, ranking, call>>

NextConc ==
    \/ \E p \in Adders : \E a \in ArticleIds : AdderFindLink(p, a)
    \/ \E p \in Adders : AdderFindMatch(p)
    \/ \E p \in Adders : AdderFindById(p)
    \/ \E p \in Adders : AdderGetOrCreate(p)
    \/ \E p \in Adders : AdderFindExisting(p)
    \/ \E p \in Adders : AdderCreateLink(p)
    \/ \E p \in Adders : AdderCalcDiversity(p)
    \/ \E p \in Adders : AdderCalcCredibility(p)
    \/ \E p \in Adders : AdderSave(p)
    \/ \E p \in Adders : AdderRecalcFind(p)
    \/ \E p \in Adders : AdderRecalcSave(p)
    \/ RefreshFind
    \/ RefreshStory
    \/ RefreshReturn

SpecConc == InitConc /\ [][NextConc]_vars

\* C8: refreshAllScores run concurrently with addArticleToStory on the same
\* story is safe: for every interleaving, once both have finished (no other
\* call having started) the story's sourceCount, sourceDiversity and
\* averageCredibility are the ones clustering wrote, and its importanceScore
\* is within 0.01 of the score computed from those final fields.
C8_RefreshSafeWithClustering ==
    \A p \in Adders :
        (/\ refresher.pc = "done"
         /\ adders[p].pc = "done"
         /\ adders[p].linked
         /\ \A q \in Adders \ {p} : adders[q].pc = "idle")
        => LET stored == stories[adders[p].storyId]
           IN  /\ stored.sourceCount = adders[p].story.sourceCount
               /\ stored.sourceDiversity = adders[p].story.sourceDiversity
               /\ stored.averageCredibility = adders[p].story.averageCredibility
               /\ RLe(RAbs(RSub(stored.importanceScore,
                                calculateImportanceScore(stored, now))),
                      Rat(1, 100))

\* C9: nothing locks the read-modify-write of a Story's aggregates: when
\* two batches concurrently attach articles of two different sources to
\* the same story and both read sourceCount = N, both write N + 1, and
\* afterwards sourceCount is one less than the number of StorySource rows
\* of the story.
C9_BothWriteNPlusOne ==
    (/\ \A p \in Adders : adders[p].pc = "done" /\ adders[p].linked
     /\ adders["A"].storyId = adders["B"].storyId
     /\ adders["A"].story.sourceCount = adders["B"].story.sourceCount)
    => /\ stories[adders["A"].storyId].sourceCount = adders["A"].story.sourceCount
       /\ stories[adders["A"].storyId].sourceCount
              = Cardinality(RowsOf(storySources, adders["A"].storyId)) - 1

\* both calls have returned, each having linked its article after reading
\* the same sourceCount, and the story counts one source fewer than its rows
C9_LostUpdate ==
    /\ \A p \in Adders : adders[p].pc = "done" /\ adders[p].linked
    /\ News[adders["A"].article].source # News[adders["B"].article].source
    /\ adders["A"].storyId = adders["B"].storyId
    /\ adders["A"].story.sourceCount = adders["B"].story.sourceCount
    /\ stories[adders["A"].storyId].sourceCount
           = Cardinality(RowsOf(storySources, adders["A"].storyId)) - 1

(***************************************************************************)
(* Articles assigned one at a time: clusterArticles is called with one     *)
(* article of News per call, no store call is rejected, and a day may pass *)
(* between calls                                                           *)
(***************************************************************************)
Singles == {<<a>> : a \in DOMAIN News}
AssignTicks == {24}

NextAssign ==
    \/ \E articles \in Singles : StartBatch(articles)
    \/ ProcessArticle("none")
    \/ ReturnResults
    \/ \E d \in AssignTicks : Tick(d)

SpecAssign == Init /\ [][NextAssign]_vars

\* C11: with one existing story created from the Reuters article 'Senate
\* passes infrastructure bill' (business), assigning the BBC article
\* 'Senate approves infrastructure bill' (business) within 48 hours gives a
\* titleSimilarity above 0.65, so the article is matched to that story,
\* after which the story has sourceCount = 2, sourceDiversity = 2/6 and
\* averageCredibility = (0.95 + 0.90)/2.
C11_RewordedTitleIsMatched ==
    [][(/\ cluster.pc = "loop"
        /\ cluster'.i = cluster.i + 1
        /\ cluster.articles[cluster.i] = 5
        /\ Len(stories) = 1
        /\ stories[1].canonicalTitle = News[1].title
        /\ stories[1].category = News[5].category
        /\ {r.articleId : r \in storySources} = {1}
        /\ now <= stories[1].firstSeen + 48)
       => /\ RLt(SIMILARITY_THRESHOLD,
                 calculateTitleSimilarity(News[5].title, stories[1].canonicalTitle))
          /\ Len(stories') = 1
          /\ RowsOfArticle(storySources', 5) = 1
          /\ stories'[1].sourceCount = 2
          /\ stories'[1].sourceDiversity = Rat(2, 6)
          /\ stories'[1].averageCredibility = Rat(95 + 90, 200)]_vars

\* C16: addArticleToStory called for a story that already has a StorySource
\* row of the article's sourceName returns normally, without raising (the
\* iteration is counted as merged, not as an error), and leaves the
\* StorySource rows and the stories (sourceCount, sourceDiversity,
\* averageCredibility, importanceScore, lastUpdated) unchanged.
C16_LinkedSourceChangesNothing ==
    [][(/\ cluster.pc = "loop"
        /\ cluster'.i = cluster.i + 1
        /\ RowsOfArticle(storySources, cluster.articles[cluster.i]) = 0
        /\ LET article == News[cluster.articles[cluster.i]]
               match == findMatchingStory(stories, article, now)
           IN  /\ match.storyId # 0
               /\ \E r \in storySources : /\ r.storyId = match.storyId
                                          /\ r.sourceName = article.source)
       => /\ storySources' = storySources
          /\ stories' = stories
          /\ cluster'.results
                 = [cluster.results EXCEPT !.mergedArticles = @ + 1]]_vars

\* a day after a story was created, a second article of its source was
\* matched to it and counted as merged: the article has no row and the
\* story still has sourceCount 1 and its lastUpdated of the day before
C16_SecondArticleOfSourceMerged ==
    /\ cluster.pc = "returned"
    /\ cluster.results = [NoResults EXCEPT !.mergedArticles = 1]
    /\ \E a \in DOMAIN News : \E id \in 1..Len(stories) :
           /\ RowsOfArticle(storySources, a) = 0
           /\ findMatchingStory(stories, News[a], now).storyId = id
           /\ \E r \in storySources : r.storyId = id /\ r.sourceName = News[a].source
           /\ stories[id].sourceCount = 1
           /\ stories[id].lastUpdated < now

(***************************************************************************)
(* calculateArticleSimilarity as a function of two articles                *)
(***************************************************************************)
\* titles: none, the title of News[1], a longer title around it, a title
\* sharing 3 of 10 significant words with it, and an unrelated one
DraftTitles ==
    {<<>>,
     News[1].title,
     News[2].title,
     <<"senate", "infrastructure", "bill", "stalls", "while", "house", "debates",
       "budget", "cuts">>,
     <<"markets", "rally", "after", "senate", "vote">>}

\* description and content: none, and two bodies with one description
DraftBodies ==
    {[description |-> <<>>, content |-> <<>>],
     [description |-> <<"lawmakers", "approved", "the", "spending", "package">>,
      content |-> <<"senators", "voted", "late", "tuesday">>],
     [description |-> <<"lawmakers", "approved", "the", "spending", "package">>,
      content |-> <<"markets", "rose", "after", "the", "vote">>]}

Drafts ==
    {[title |-> t, description |-> b.description, content |-> b.content] :
        t \in DraftTitles, b \in DraftBodies}

\* clusteringService.calculateArticleSimilarity(article1, article2)
ArticleSimilarity(article1, article2) ==
    /\ call' = [op |-> "calculateArticleSimilarity", article1 |-> article1,
                article2 |-> article2,
                result |-> calculateArticleSimilarity(article1, article2)]
    /\ UNCHANGED <<stories, storySources, sources, now, cluster, budget, adders,
                   refresher, ranking>>

NextText ==
    \E article1 \in Drafts : \E article2 \in Drafts :
        ArticleSimilarity(article1, article2)

SpecText == Init /\ [][NextText]_vars

\* C14: for every pair of articles whose titleSimilarity is below 0.3,
\* calculateArticleSimilarity returns exactly 0 whatever the overlap of
\* their description and content; otherwise it returns 0.6*titleSimilarity
\* + 0.4*(word similarity of the concatenated description and content).
C14_TitleGate ==
    call.op = "calculateArticleSimilarity" =>
        LET titleSim == calculateTitleSimilarity(call.article1.title, call.article2.title)
            wordSim == calculateSimilarity(
                           call.article1.description \o call.article1.content,
                           call.article2.description \o call.article2.content)
        IN  /\ RLt(titleSim, Rat(3, 10)) => call.result = RZero
            /\ ~RLt(titleSim, Rat(3, 10))
                   => call.result = RAdd(RMul(Rat(6, 10), titleSim),
                                         RMul(Rat(4, 10), wordSim))

\* two articles with titles less than 0.3 similar and the same description
\* and content were compared, and the result is 0
C14_GatedDespiteSameContent ==
    /\ call.op = "calculateArticleSimilarity"
    /\ call.article1.title # <<>>
    /\ call.article2.title # <<>>
    /\ RLt(RZero, calculateTitleSimilarity(call.article1.title, call.article2.title))
    /\ RLt(calculateTitleSimilarity(call.article1.title, call.article2.title),
           Rat(3, 10))
    /\ calculateSimilarity(call.article1.description \o call.article1.content,
                           call.article2.description \o call.article2.content) = ROne
    /\ call.result = RZero

(***************************************************************************)
(* refreshAllScores on its own: a batch was clustered at StartHour, time   *)
(* has passed, and the refresh is called, and called again when it has     *)
(* returned, with nothing else running                                     *)
(***************************************************************************)
\* refreshAllScores calls in one behaviour
MaxRefreshes == 2
\* the clock of the refresh
RefreshHours == {StartHour, StartHour + 36, StartHour + 120}

\* the store after clusterArticles(batch) at clock, no store call rejected
RECURSIVE StoreAfter(_, _, _)
StoreAfter(st, batch, clock) ==
    IF batch = <<>> THEN st
    ELSE CHOOSE after \in
             {StoreAfter([stories |-> r.stories, storySources |-> r.storySources,
                          sources |-> r.sources], Tail(batch), clock) :
                 r \in {clusterOne(st, News[Head(batch)], clock, "none")}} : TRUE

InitRefresh ==
    /\ \E batch \in Batches :
       \E st \in {StoreAfter([stories |-> <<>>, storySources |-> {}, sources |-> {}],
                             batch, StartHour)} :
           /\ stories = st.stories
           /\ storySources = st.storySources
           /\ sources = st.sources
    /\ now \in RefreshHours
    /\ budget = [steps |-> 0, faults |-> 0]
    /\ cluster = [pc |-> "idle", articles |-> <<>>, i |-> 0, results |-> NoResults,
                  storiesAtCall |-> 0, n |-> 0]
    /\ adders = [p \in Adders |-> IdleAdder]
    /\ refresher = IdleRefresher
    /\ ranking = NoRanking
    /\ call = NoCall

\* refreshAllScores is called again after it has returned
RefreshFindAgain ==
    /\ refresher.pc = "done"
    /\ refresher.calls < MaxRefreshes
    /\ refresher' = [pc |-> "loop", docs |-> RecentStories(stories, now),
                     i |-> 1, updated |-> 0, calls |-> refresher.calls + 1]
    /\ UNCHANGED <<stories, storySources, sources, now, cluster, budget, adders, ranking,
                   call>>

NextRefresh ==
    \/ RefreshFind
    \/ RefreshStory
    \/ RefreshReturn
    \/ RefreshFindAgain

SpecRefresh == InitRefresh /\ [][NextRefresh]_vars

significantStopwords ==
    {"the", "a", "an", "and", "or", "but", "in", "on", "at", "to", "for",
     "of", "with", "by", "from", "as", "is", "was", "are", "were", "been",
     "have", "has", "had", "will", "would", "could", "should", "said", "says"}

\* the array of significant words, in order, repeats kept
extractSignificantWords(text) ==
    SelectSeq(text, LAMBDA w : Len(w) > 3 /\ w \notin significantStopwords)

\* words1.filter(w => words2.includes(w)).length / new Set([...]).size
calculateRelevance(story1, story2) ==
    IF story1.category # story2.category THEN RZero
    ELSE LET words1 == extractSignificantWords(story1.canonicalTitle)
             words2 == extractSignificantWords(story2.canonicalTitle)
             intersection == SelectSeq(words1,
                                 LAMBDA w : \E j \in 1..Len(words2) : words2[j] = w)
             union == {words1[i] : i \in 1..Len(words1)}
                          \cup {words2[j] : j \in 1..Len(words2)}
         IN  IF union = {} THEN RZero
             ELSE Rat(Len(intersection), Cardinality(union))

determineRelationship(current, related) ==
    IF related.firstSeen < current.firstSeen THEN "PRECEDES"
    ELSE IF related.firstSeen > current.firstSeen THEN "FOLLOWS"
    ELSE "RELATED"

\* a query without the upper bound on firstSeen
RelatedStoriesAnyDate(strs, storyId, cutoff) ==
    {i \in 1..Len(strs) : /\ i # storyId
                          /\ strs[i].category = strs[storyId].category
                          /\ strs[i].firstSeen >= cutoff}

\* Story.find({_id: {$ne}, category, firstSeen: {$gte: cutoff, $lt: firstSeen}})
RelatedStories(strs, storyId, cutoff) ==
    {i \in 1..Len(strs) : /\ i # storyId
                          /\ strs[i].category = strs[storyId].category
                          /\ strs[i].firstSeen >= cutoff
                          /\ strs[i].firstSeen < strs[storyId].firstSeen}

\* .sort({firstSeen: -1}): newest first; the store orders stories of one
\* firstSeen either way (tie)
RECURSIVE NewestFirst(_, _, _)
NewestFirst(strs, ids, tie) ==
    IF ids = {} THEN <<>>
    ELSE LET newest == {i \in ids : \A j \in ids : strs[j].firstSeen <= strs[i].firstSeen}
         IN  CHOOSE sorted \in
                 {<<head>> \o NewestFirst(strs, ids \ {head}, tie) :
                     head \in {i \in newest :
                                  \A j \in newest : IF tie = "natural" THEN i <= j
                                                    ELSE i >= j}} : TRUE

\* .limit(n) and .slice(0, n)
FirstN(q, n) == SubSeq(q, 1, IF Len(q) < n THEN Len(q) ELSE n)

\* what a function returns for a missing document
Null == [null |-> TRUE]

\* the calls of buildTimeline the store may reject
TimelineFailPoints == {"none", "findById", "findStories"}

\* buildTimeline(storyId, days) at clock.  The entries are pushed in the
\* order of the query, newest first, and the sort by date that follows is
\* stable, so it leaves them in that order.
buildTimeline(strs, storyId, days, clock, tie, fail) ==
    IF fail = "findById" \/ storyId \notin 1..Len(strs) THEN Null
    ELSE IF fail = "findStories" THEN Null
    ELSE LET story == strs[storyId]
             cutoff == clock - days * 24
             relatedStories ==
                 FirstN(NewestFirst(strs, RelatedStories(strs, storyId, cutoff), tie), 10)
             relevant == SelectSeq(relatedStories,
                             LAMBDA i : RLt(Rat(3, 10), calculateRelevance(story, strs[i])))
             timelineEntries ==
                 [k \in 1..Len(relevant) |->
                     [date |-> strs[relevant[k]].firstSeen,
                      title |-> strs[relevant[k]].canonicalTitle,
                      storyId |-> relevant[k],
                      relevanceScore |-> calculateRelevance(story, strs[relevant[k]]),
                      relationship |-> determineRelationship(story, strs[relevant[k]])]]
         IN  [currentStory |-> [id |-> storyId, title |-> story.canonicalTitle,
                                date |-> story.firstSeen],
              timeline |-> FirstN(timelineEntries, 5),
              totalRelated |-> Len(timelineEntries)]

\* the clock of the calls
ContextHour == StartHour + 40 * 24

\* the articles clustered before the calls: the Senate bill and stories
\* around it, the oldest dated before the 30 day window, other business
\* stories, a general story, and a business story of the day of the calls
Archive ==
    LET at(daysAgo) == ContextHour - daysAgo * 24
        a(id, title, source, category, daysAgo) ==
            [_id |-> id, title |-> title, source |-> source, category |-> category,
             publishedAt |-> at(daysAgo)]
    IN  <<a(101, <<"senate", "passes", "infrastructure", "bill">>, "Reuters", "business", 1),
          a(102, <<"senate", "infrastructure", "hearing", "delayed">>, "BBC", "business", 2),
          a(103, <<"senate", "debates", "infrastructure", "bill">>, "Reuters", "business", 3),
          a(104, <<"infrastructure", "bill", "clears", "committee">>, "BBC", "business", 4),
          a(105, <<"senate", "passes", "budget", "bill">>, "New York Times", "business", 5),
          a(106, <<"infrastructure", "bill", "stalls", "in", "senate">>, "Reuters", "business", 6),
          a(107, <<"infrastructure", "bill", "drafted", "for", "senate">>, "BBC", "business", 7),
          a(108, <<"senate", "infrastructure", "vote", "scheduled">>, "BBC", "general", 7),
          a(109, <<"trade", "talks", "stall", "while", "trade", "deal", "deadline", "nears">>,
            "Reuters", "business", 8),
          a(110, <<"trade", "deal", "signed">>, "BBC", "business", 9),
          a(111, <<"oil", "prices", "climb", "on", "supply", "fears">>, "Reuters", "business", 9),
          a(112, <<"central", "bank", "holds", "rates">>, "BBC", "business", 10),
          a(113, <<"senate", "infrastructure", "bill", "introduced">>, "Reuters", "business", 20),
          a(114, <<"senate", "infrastructure", "bill", "proposed">>, "BBC", "business", 33),
          a(115, <<"markets", "rally", "after", "senate", "vote">>, "Reuters", "business", 0)>>

\* the store after clusterArticles(articles) at clock, no store call rejected
RECURSIVE StoreOf(_, _, _)
StoreOf(st, articles, clock) ==
    IF articles = <<>> THEN st
    ELSE CHOOSE after \in
             {StoreOf([stories |-> r.stories, storySources |-> r.storySources,
                       sources |-> r.sources], Tail(articles), clock) :
                 r \in {clusterOne(st, Head(articles), clock, "none")}} : TRUE

\* the days a timeline is asked for (the route's default is 30)
DayWindows == {1, 7, 30}

\* how many articles of the archive have been clustered
ArchiveSizes == {6, 13, Len(Archive)}

\* Init: the first articles of the archive have been clustered
InitContext ==
    /\ \E n \in ArchiveSizes :
       \E st \in {StoreOf([stories |-> <<>>, storySources |-> {}, sources |-> {}],
                          SubSeq(Archive, 1, n), ContextHour)} :
           /\ stories = st.stories
           /\ storySources = st.storySources
           /\ sources = st.sources
    /\ now = ContextHour
    /\ budget = [steps |-> 0, faults |-> 0]
    /\ cluster = [pc |-> "idle", articles |-> <<>>, i |-> 0, results |-> NoResults,
                  storiesAtCall |-> 0, n |-> 0]
    /\ adders = [p \in Adders |-> IdleAdder]
    /\ refresher = IdleRefresher
    /\ ranking = NoRanking
    /\ call = NoCall

\* the ids the calls are made with: every story, and one no story has
CalledIds == 1..(Len(stories) + 1)

\* contextService.buildTimeline(storyId, days): any exception is caught
BuildTimeline(storyId, days, tie, fail) ==
    /\ call' = [op |-> "buildTimeline", storyId |-> storyId, days |-> days,
                threw |-> FALSE,
                result |-> buildTimeline(stories, storyId, days, now, tie, fail)]
    /\ UNCHANGED <<stories, storySources, sources, now, cluster, budget, adders,
                   refresher, ranking>>

\* contextService.calculateRelevance(story1, story2) on two stored stories
CalculateRelevance(id1, id2) ==
    /\ call' = [op |-> "calculateRelevance", story1 |-> stories[id1],
                story2 |-> stories[id2], threw |-> FALSE,
                result |-> calculateRelevance(stories[id1], stories[id2])]
    /\ UNCHANGED <<stories, storySources, sources, now, cluster, budget, adders,
                   refresher, ranking>>

\* Story.recalculateImportance(storyId), called on its own
RecalculateImportance(storyId) ==
    /\ budget.steps < MaxSteps
    /\ budget' = [budget EXCEPT !.steps = @ + 1]
    /\ stories' = recalculateImportance(stories, storyId, now)
    /\ call' = [op |-> "recalculateImportance", storyId |-> storyId, threw |-> FALSE,
                result |-> IF storyId \in 1..Len(stories) THEN stories'[storyId]
                           ELSE Null]
    /\ UNCHANGED <<storySources, sources, now, cluster, adders, refresher, ranking>>

\* clusteringService.addArticleToStory(storyId, article, similarityScore),
\* called on its own; it has no try/catch
AddArticleToStory(storyId, article, similarityScore) ==
    /\ budget.steps < MaxSteps
    /\ budget' = [budget EXCEPT !.steps = @ + 1]
    /\ \E r \in {addArticleToStory(Store, storyId, article, similarityScore, now, "none")} :
           /\ stories' = r.stories
           /\ storySources' = r.storySources
           /\ sources' = r.sources
           /\ call' = [op |-> "addArticleToStory", storyId |-> storyId,
                       threw |-> r.threw,
                       result |-> IF r.threw THEN Null ELSE r.stories[storyId]]
    /\ UNCHANGED <<now, cluster, adders, refresher, ranking>>

NextContext ==
    \/ \E storyId \in CalledIds : \E days \in DayWindows :
       \E tie \in {"natural", "reverse"} : \E fail \in TimelineFailPoints :
           BuildTimeline(storyId, days, tie, fail)
    \/ \E id1 \in 1..Len(stories) : \E id2 \in 1..Len(stories) :
           CalculateRelevance(id1, id2)
    \/ \E storyId \in {1, Len(stories) + 1} : RecalculateImportance(storyId)
    \/ \E storyId \in {1, Len(stories) + 1} : \E a \in {1, 5} :
           AddArticleToStory(storyId, News[a], Rat(7, 10))

SpecContext == InitContext /\ [][NextContext]_vars

\* C17: every core operation handed the id of a story that does not exist
\* (buildTimeline, recalculateImportance, addArticleToStory) reports an
\* empty result: it raises no exception and leaves the store unchanged.
C17_MissingStoryGivesEmptyResult ==
    (/\ call.op \in {"buildTimeline", "recalculateImportance", "addArticleToStory"}
     /\ call.storyId \notin 1..Len(stories))
        => (call.threw = FALSE /\ call.result = Null)

\* C18: every entry of the timeline buildTimeline(storyId, days) returns is
\* another story of the same category whose firstSeen is at or after now -
\* days and before the story's own firstSeen, has a relevance above 0.3 and
\* the relationship PRECEDES; the entries are in descending date order and
\* there are at most 5 of them.
C18_TimelineEntriesPrecede ==
    (call.op = "buildTimeline" /\ call.result # Null) =>
        LET story == stories[call.storyId]
            timeline == call.result.timeline
        IN  /\ Len(timeline) <= 5
            /\ \A k \in 1..Len(timeline) :
                   /\ timeline[k].storyId \in 1..Len(stories)
                   /\ timeline[k].storyId # call.storyId
                   /\ stories[timeline[k].storyId].category = story.category
                   /\ timeline[k].date = stories[timeline[k].storyId].firstSeen
                   /\ timeline[k].title = stories[timeline[k].storyId].canonicalTitle
                   /\ timeline[k].date >= now - call.days * 24
                   /\ timeline[k].date < story.firstSeen
                   /\ timeline[k].relevanceScore
                          = calculateRelevance(story, stories[timeline[k].storyId])
                   /\ RLt(Rat(3, 10), timeline[k].relevanceScore)
                   /\ timeline[k].relationship = "PRECEDES"
            /\ \A k \in 1..(Len(timeline) - 1) : timeline[k].date >= timeline[k + 1].date

\* a timeline of 5 entries was cut from 6 relevant stories, while the store
\* holds a later story of the category, one of another category dated in
\* the window, and one of the category dated before the window
C18_TimelineCutToFive ==
    /\ call.op = "buildTimeline"
    /\ call.result # Null
    /\ Len(call.result.timeline) = 5
    /\ call.result.totalRelated = 6
    /\ \E i \in 1..Len(stories) :
           /\ stories[i].category = stories[call.storyId].category
           /\ stories[i].firstSeen > stories[call.storyId].firstSeen
    /\ \E i \in 1..Len(stories) :
           /\ stories[i].category # stories[call.storyId].category
           /\ stories[i].firstSeen >= now - call.days * 24
           /\ stories[i].firstSeen < stories[call.storyId].firstSeen
    /\ \E i \in 1..Len(stories) :
           /\ stories[i].category = stories[call.storyId].category
           /\ stories[i].firstSeen < now - call.days * 24

\* C19: the totalRelated buildTimeline returns is the number of all the
\* stories of the same category dated in the window before the story whose
\* relevance is above 0.3, and the timeline is the 5 most recent of those,
\* however many stories of the category the window holds.
C19_TotalCountsEveryRelevantStory ==
    (call.op = "buildTimeline" /\ call.result # Null) =>
        LET story == stories[call.storyId]
            timeline == call.result.timeline
            shown == {timeline[k].storyId : k \in 1..Len(timeline)}
            relevant == {i \in 1..Len(stories) :
                            /\ i # call.storyId
                            /\ stories[i].category = story.category
                            /\ stories[i].firstSeen >= now - call.days * 24
                            /\ stories[i].firstSeen < story.firstSeen
                            /\ RLt(Rat(3, 10), calculateRelevance(story, stories[i]))}
        IN  /\ call.result.totalRelated = Cardinality(relevant)
            /\ shown \subseteq relevant
            /\ Cardinality(shown) = Len(timeline)
            /\ Len(timeline) = IF Cardinality(relevant) < 5 THEN Cardinality(relevant) ELSE 5
            /\ \A i \in shown : \A j \in relevant \ shown :
                   stories[j].firstSeen <= stories[i].firstSeen

\* C20: for any two stories of the same category calculateRelevance returns
\* the plain Jaccard similarity |A intersect B| / |A union B| of the sets of
\* significant words (longer than 3 characters, not stop words) of their
\* canonical titles, a value in [0,1].
C20_RelevanceIsJaccard ==
    (/\ call.op = "calculateRelevance"
     /\ call.story1.category = call.story2.category) =>
        LET significant(title) ==
                {title[i] : i \in {j \in 1..Len(title) :
                                      /\ Len(title[j]) > 3
                                      /\ title[j] \notin significantStopwords}}
            A == significant(call.story1.canonicalTitle)
            B == significant(call.story2.canonicalTitle)
        IN  /\ call.result = IF A \cup B = {} THEN RZero
                             ELSE Rat(Cardinality(A \cap B), Cardinality(A \cup B))
            /\ RLe(RZero, call.result)
            /\ RLe(call.result, ROne)

(***************************************************************************)
(* Ranked feed: calmRankingService.getStoriesWithCalmRanking and           *)
(* Story.getWithCalmRanking, read page by page                             *)
(***************************************************************************)
\* an option the caller left out
undefined == "undefined"

\* the stored document with its _id, as .lean() returns it
LeanStory(strs, i) ==
    [f \in DOMAIN strs[i] \cup {"_id"} |-> IF f = "_id" THEN i ELSE strs[i][f]]

\* the query of the service: 'all' and a missing option do not filter
ServiceQuery(strs, options, clock) ==
    {i \in 1..Len(strs) :
        /\ (options.category # undefined /\ options.category # "all")
               => strs[i].category = options.category
        /\ (options.mood # undefined /\ options.mood # "all")
               => strs[i].mood = options.mood
        /\ strs[i].firstSeen >= clock - options.maxAgeHours}

\* the query of the Story static: 'general' and a missing option do not filter
StaticQuery(strs, options, clock) ==
    {i \in 1..Len(strs) :
        /\ (options.category # undefined /\ options.category # "general")
               => strs[i].category = options.category
        /\ options.mood # undefined => strs[i].mood = options.mood
        /\ strs[i].firstSeen >= clock - options.maxAgeHours}

\* .sort({importanceScore: -1, lastUpdated: -1}): i sorts before j
SortsBefore(strs, i, j) ==
    \/ RLt(strs[j].importanceScore, strs[i].importanceScore)
    \/ /\ strs[j].importanceScore = strs[i].importanceScore
       /\ strs[j].lastUpdated < strs[i].lastUpdated

\* the sorted ids; stories equal in both keys come in either order (tie),
\* two of the orders the store may return them in
RECURSIVE SortedByImportance(_, _, _)
SortedByImportance(strs, ids, tie) ==
    IF ids = {} THEN <<>>
    ELSE LET top == {i \in ids : \A j \in ids : ~SortsBefore(strs, j, i)}
         IN  CHOOSE sorted \in
                 {<<head>> \o SortedByImportance(strs, ids \ {head}, tie) :
                     head \in {i \in top :
                                  \A j \in top : IF tie = "natural" THEN i <= j
                                                 ELSE i >= j}} : TRUE

\* .skip((page - 1) * limit).limit(limit)
SkipLimit(q, page, limit) ==
    SubSeq(q, (page - 1) * limit + 1,
           IF Len(q) < page * limit THEN Len(q) ELSE page * limit)

\* Array.prototype.sort by importanceScore descending; the sort is stable
RECURSIVE SortByScoreDescending(_)
SortByScoreDescending(docs) ==
    IF docs = <<>> THEN <<>>
    ELSE LET first == CHOOSE k \in 1..Len(docs) :
                          /\ \A j \in 1..Len(docs) :
                                 RLe(docs[j].importanceScore, docs[k].importanceScore)
                          /\ \A j \in 1..(k - 1) :
                                 docs[j].importanceScore # docs[k].importanceScore
         IN  CHOOSE sorted \in
                 {<<docs[k]>> \o SortByScoreDescending(
                                     SubSeq(docs, 1, k - 1) \o SubSeq(docs, k + 1, Len(docs))) :
                     k \in {first}} : TRUE

\* rankStories: every story gets its score of the moment and the page is
\* sorted by it
rankStories(docs, clock) ==
    SortByScoreDescending(
        [k \in 1..Len(docs) |->
            [docs[k] EXCEPT !.importanceScore = calculateImportanceScore(docs[k], clock)]])

\* Math.ceil(total / limit) and the rest of the pagination object
Pagination(page, limit, total) ==
    [page |-> page, limit |-> limit, total |-> total,
     totalPages |-> (total + limit - 1) \div limit,
     hasMore |-> page * limit < total]

getStoriesWithCalmRanking(strs, options, page, clock, tie) ==
    LET matching == ServiceQuery(strs, options, clock)
        found == SkipLimit(SortedByImportance(strs, matching, tie), page, options.limit)
    IN  [stories |-> rankStories([k \in 1..Len(found) |-> LeanStory(strs, found[k])], clock),
         pagination |-> Pagination(page, options.limit, Cardinality(matching))]

getWithCalmRanking(strs, options, page, clock, tie) ==
    LET matching == StaticQuery(strs, options, clock)
        found == SkipLimit(SortedByImportance(strs, matching, tie), page, options.limit)
    IN  [stories |-> [k \in 1..Len(found) |-> LeanStory(strs, found[k])],
         pagination |-> Pagination(page, options.limit, Cardinality(matching))]

RankingOps == {"getStoriesWithCalmRanking", "getWithCalmRanking"}

getRanked(op, strs, options, page, clock, tie) ==
    IF op = "getStoriesWithCalmRanking"
    THEN getStoriesWithCalmRanking(strs, options, page, clock, tie)
    ELSE getWithCalmRanking(strs, options, page, clock, tie)

\* the clock of the clustering run before the feed is read
RankHour == StartHour + 10 * 24

\* the articles clustered before the feed is read: three categories, three
\* moods, two Reuters business stories of one hour, one story older than 72
\* hours
RankFeed ==
    <<[_id |-> 201, title |-> <<"senate", "passes", "infrastructure", "bill">>,
       source |-> "Reuters", category |-> "business", publishedAt |-> RankHour - 2],
      [_id |-> 202, title |-> <<"storm", "closes", "northern", "airports">>,
       source |-> "BBC", category |-> "general", mood |-> "calm",
       publishedAt |-> RankHour - 30],
      [_id |-> 203, title |-> <<"city", "wins", "cup", "final">>,
       source |-> "Reuters", category |-> "sports", mood |-> "serious",
       publishedAt |-> RankHour - 5],
      [_id |-> 204, title |-> <<"central", "bank", "holds", "rates">>,
       source |-> "Reuters", category |-> "business", publishedAt |-> RankHour - 2],
      [_id |-> 205, title |-> <<"oil", "prices", "climb", "on", "supply", "fears">>,
       source |-> "BBC", category |-> "business", publishedAt |-> RankHour - 80],
      [_id |-> 206, title |-> <<"election", "results", "delayed", "in", "capital">>,
       source |-> "New York Times", category |-> "general", publishedAt |-> RankHour - 10]>>

RankFeedSizes == {4, 5, Len(RankFeed)}
\* the hours after the clustering run at which the feed is read
ReadDelays == {0, 12}

\* the options of a request
RankOptions ==
    [category : {undefined, "all", "general", "business"},
     mood : {undefined, "all", "neutral", "calm"},
     maxAgeHours : {24, 72},
     limit : {2, 20}]

InitRanked ==
    /\ \E n \in RankFeedSizes :
       \E st \in {StoreOf([stories |-> <<>>, storySources |-> {}, sources |-> {}],
                          SubSeq(RankFeed, 1, n), RankHour)} :
           /\ stories = st.stories
           /\ storySources = st.storySources
           /\ sources = st.sources
    /\ now \in {RankHour + d : d \in ReadDelays}
    /\ budget = [steps |-> 0, faults |-> 0]
    /\ cluster = [pc |-> "idle", articles |-> <<>>, i |-> 0, results |-> NoResults,
                  storiesAtCall |-> 0, n |-> 0]
    /\ adders = [p \in Adders |-> IdleAdder]
    /\ refresher = IdleRefresher
    /\ ranking = NoRanking
    /\ call = NoCall

\* the ids of the stories of a page
PageIds(result) == [k \in 1..Len(result.stories) |-> result.stories[k]._id]

\* page 1 is requested
GetRanked(op, options, tie) ==
    /\ \E result \in {getRanked(op, stories, options, 1, now, tie)} :
           call' = [op |-> op, options |-> options, page |-> 1,
                    seen |-> PageIds(result), result |-> result]
    /\ UNCHANGED <<stories, storySources, sources, now, cluster, budget, adders,
                   refresher, ranking>>

\* the client asks for the next page while hasMore is true
GetNextPage(tie) ==
    /\ call.op \in RankingOps
    /\ call.result.pagination.hasMore
    /\ \E result \in {getRanked(call.op, stories, call.options, call.page + 1, now, tie)} :
           call' = [call EXCEPT !.page = @ + 1,
                                !.seen = @ \o PageIds(result),
                                !.result = result]
    /\ UNCHANGED <<stories, storySources, sources, now, cluster, budget, adders,
                   refresher, ranking>>

NextRanked ==
    \/ \E op \in RankingOps : \E options \in RankOptions :
       \E tie \in {"natural", "reverse"} : GetRanked(op, options, tie)
    \/ \E tie \in {"natural", "reverse"} : GetNextPage(tie)

SpecRanked == InitRanked /\ [][NextRanked]_vars

\* C21: getRanked(page, limit, category, mood, maxAgeHours) returns only
\* stories with firstSeen within maxAgeHours that equal the requested
\* category and mood, ordered by importanceScore descending then
\* lastUpdated descending, with totalPages = ceil(total/limit) and hasMore
\* true exactly when page*limit < total; reading pages 1..totalPages over
\* an unchanged store yields every matching story exactly once.
C21_RankedPages ==
    call.op \in RankingOps =>
        LET page == call.result.stories
            pagination == call.result.pagination
            matching == {i \in 1..Len(stories) :
                            /\ stories[i].firstSeen >= now - call.options.maxAgeHours
                            /\ call.options.category # undefined
                                   => stories[i].category = call.options.category
                            /\ call.options.mood # undefined
                                   => stories[i].mood = call.options.mood}
        IN  /\ \A k \in 1..Len(page) : page[k]._id \in matching
            /\ \A k \in 1..(Len(page) - 1) :
                   \/ RLt(page[k + 1].importanceScore, page[k].importanceScore)
                   \/ /\ page[k + 1].importanceScore = page[k].importanceScore
                      /\ page[k + 1].lastUpdated <= page[k].lastUpdated
            /\ pagination.total = Cardinality(matching)
            /\ pagination.totalPages * call.options.limit >= pagination.total
            /\ (pagination.totalPages - 1) * call.options.limit < pagination.total
            /\ pagination.hasMore <=> (call.page * call.options.limit < pagination.total)
            /\ call.page >= pagination.totalPages =>
                   /\ {call.seen[k] : k \in 1..Len(call.seen)} = matching
                   /\ Len(call.seen) = Cardinality(matching)

(***************************************************************************)
(* Decision maker (part_003): heuristicDecision.  A text is the sequence   *)
(* of its lower-case, single-spaced tokens; a pattern is a sequence of     *)
(* sets of tokens, one set per word of the regular expression, each set    *)
(* holding the tokens of the texts below that the word matches (a regular  *)
(* expression matches inside a longer token too).                          *)
(***************************************************************************)
\* tokens matching \d+ and \w+
NumberTokens == {"7", "10"}
WordTokens == {"star", "wedding", "beach"}

skipPatterns ==
    <<<<{"you"}, {"won't"}, {"believe"}>>,
      <<{"shocking:"}>>,
      <<{"click"}, {"here"}>>,
      <<{"sponsored", "unsponsored"}>>,
      <<{"advertisement", "advertisements"}>>,
      <<NumberTokens, {"things"}, {"you", "your"}>>,
      <<{"doctors"}, {"hate"}>>,
      <<{"one"}, {"weird"}, {"trick"}>>,
      <<{"celebrity"}, WordTokens, {"photos"}>>>>

processPatterns ==
    <<<<{"breaking:"}>>,
      <<{"announced"}>>,
      <<{"government", "governments"}>>,
      <<{"president", "presidents"}>>,
      <<{"minister", "ministers", "administer"}>>,
      <<{"million", "billion", "millions"}>>,
      <<{"percent"}>>,
      <<{"study"}, {"finds"}>>,
      <<{"research", "researchers"}>>,
      <<{"court"}, {"rules"}>>,
      <<{"election", "elections"}>>>>

\* pattern.test(text)
PatternTest(pattern, text) ==
    \E i \in 1..(Len(text) - Len(pattern) + 1) :
        \A k \in 1..Len(pattern) : text[i + k - 1] \in pattern[k]

\* a decision that counts the important-news indicators first
heuristicDecisionScoreFirst(title, content) ==
    LET text == title \o content
        processScore == Cardinality({k \in 1..Len(processPatterns) :
                                        PatternTest(processPatterns[k], text)})
    IN  IF processScore >= 2 THEN "PROCESS"
        ELSE IF \E k \in 1..Len(skipPatterns) : PatternTest(skipPatterns[k], text)
        THEN "SKIP"
        ELSE "PROCESS"

\* heuristicDecision(title, content): text = `${title} ${content}`
heuristicDecision(title, content) ==
    LET text == title \o content
        processScore == Cardinality({k \in 1..Len(processPatterns) :
                                        PatternTest(processPatterns[k], text)})
    IN  IF \E k \in 1..Len(skipPatterns) : PatternTest(skipPatterns[k], text)
        THEN "SKIP"
        ELSE IF processScore >= 2 THEN "PROCESS"
        ELSE "PROCESS"

\* titles and contents of incoming articles
DecisionTitles ==
    {<<"senate", "passes", "infrastructure", "bill">>,
     <<"breaking:", "president", "announced", "new", "election">>,
     <<"you", "won't", "believe", "what", "the", "president", "announced">>,
     <<"shocking:", "government", "spends", "10", "million">>,
     <<"10", "things", "you", "should", "know", "about", "the", "election">>,
     <<"study", "finds", "coffee", "is", "fine">>,
     <<"celebrity", "wedding", "photos">>,
     <<"court", "rules", "against", "minister">>,
     <<"doctors", "hate", "this", "one", "weird", "trick">>,
     <<"markets", "rally", "five", "percent">>,
     <<"to", "read", "more", "click">>,
     <<"central", "bank", "holds", "rates">>}

DecisionContents ==
    {<<>>,
     <<"lawmakers", "approved", "the", "spending", "package">>,
     <<"here", "is", "what", "researchers", "announced">>,
     <<"sponsored", "content", "from", "our", "partners">>,
     <<"the", "government", "said", "elections", "will", "be", "held">>,
     <<"the", "minister", "and", "the", "president", "met", "on", "tuesday">>,
     <<"an", "unsponsored", "review", "of", "research", "into", "billion", "dollar", "funds">>,
     <<"click", "here", "to", "subscribe">>,
     <<"advertisement">>,
     <<"prices", "rose", "two", "percent", "the", "government", "announced">>}

\* decisionMakerService.heuristicDecision(title, content)
HeuristicDecision(title, content) ==
    /\ call' = [op |-> "heuristicDecision", title |-> title, content |-> content,
                result |-> heuristicDecision(title, content)]
    /\ UNCHANGED <<stories, storySources, sources, now, cluster, budget, adders,
                   refresher, ranking>>

NextHeuristic ==
    \E title \in DecisionTitles : \E content \in DecisionContents :
        HeuristicDecision(title, content)

SpecHeuristic == Init /\ [][NextHeuristic]_vars

\* C22: heuristicDecision returns SKIP whenever the title-plus-content text
\* matches at least one clickbait pattern, whatever number of
\* important-news indicators it also matches, and returns PROCESS in every
\* other case; it never returns CACHE.
C22_ClickbaitIsSkipped ==
    call.op = "heuristicDecision" =>
        LET text == call.title \o call.content
            clickbait == \E k \in 1..Len(skipPatterns) : PatternTest(skipPatterns[k], text)
        IN  /\ clickbait => call.result = "SKIP"
            /\ ~clickbait => call.result = "PROCESS"
            /\ call.result # "CACHE"

\* a text matching a clickbait pattern and three important-news indicators
\* was decided SKIP
C22_SkippedDespiteIndicators ==
    /\ call.op = "heuristicDecision"
    /\ call.result = "SKIP"
    /\ LET text == call.title \o call.content
       IN  /\ PatternTest(skipPatterns[1], text)
           /\ Cardinality({k \in 1..Len(processPatterns) :
                              PatternTest(processPatterns[k], text)}) >= 3

(***************************************************************************)
(* Assignment rule: clusterArticles called with one article at a time, on  *)
(* stores that hold several candidate stories                              *)
(***************************************************************************)
\* the articles clustered before: three business stories on the Senate bill
\* that are at most 0.6 similar to each other, and one on the central bank
MatchArchive ==
    <<[_id |-> 301, source |-> "Reuters", category |-> "business",
       publishedAt |-> StartHour,
       title |-> <<"senate", "passes", "long", "awaited", "major", "infrastructure",
                   "bipartisan", "spending", "bill">>],
      [_id |-> 302, source |-> "Reuters", category |-> "business",
       publishedAt |-> StartHour,
       title |-> <<"senate", "passes", "historic", "major", "infrastructure",
                   "landmark", "spending", "bill">>],
      [_id |-> 303, source |-> "BBC", category |-> "business",
       publishedAt |-> StartHour,
       title |-> <<"senate", "passes", "sweeping", "major", "infrastructure",
                   "federal", "spending", "bill">>],
      [_id |-> 304, source |-> "Reuters", category |-> "business",
       publishedAt |-> StartHour,
       title |-> <<"central", "bank", "holds", "interest", "rates", "steady", "again",
                   "while", "markets", "expect", "further", "cuts", "before",
                   "summer">>]>>

MatchArchiveSizes == {0, 2, Len(MatchArchive)}

\* the articles assigned: one 2/3 similar to the first story and 3/4 to the
\* second and third, the same in another category, two with the title of
\* the second story (one of its source), and one exactly 0.65 similar to
\* the fourth story (7 of 20 words and 5 phrases shared)
MatchArticles ==
    {[_id |-> 311, source |-> "New York Times", category |-> "business",
      publishedAt |-> StartHour,
      title |-> <<"senate", "passes", "major", "infrastructure", "spending", "bill">>],
     [_id |-> 312, source |-> "New York Times", category |-> "general",
      publishedAt |-> StartHour,
      title |-> <<"senate", "passes", "major", "infrastructure", "spending", "bill">>],
     [_id |-> 313, source |-> "BBC", category |-> "business",
      publishedAt |-> StartHour,
      title |-> <<"senate", "passes", "historic", "major", "infrastructure",
                  "landmark", "spending", "bill">>],
     [_id |-> 314, source |-> "Reuters", category |-> "business",
      publishedAt |-> StartHour,
      title |-> <<"senate", "passes", "historic", "major", "infrastructure",
                  "landmark", "spending", "bill">>],
     [_id |-> 315, source |-> "BBC", category |-> "business",
      publishedAt |-> StartHour,
      title |-> <<"central", "bank", "holds", "interest", "rates", "steady", "again",
                  "despite", "rising", "inflation", "fears", "among", "investors">>]}

InitMatch ==
    /\ \E n \in MatchArchiveSizes :
       \E st \in {StoreOf([stories |-> <<>>, storySources |-> {}, sources |-> {}],
                          SubSeq(MatchArchive, 1, n), StartHour)} :
           /\ stories = st.stories
           /\ storySources = st.storySources
           /\ sources = st.sources
    /\ now = StartHour
    /\ budget = [steps |-> 0, faults |-> 0]
    /\ cluster = [pc |-> "idle", articles |-> <<>>, i |-> 0, results |-> NoResults,
                  storiesAtCall |-> 0, n |-> 0]
    /\ adders = [p \in Adders |-> IdleAdder]
    /\ refresher = IdleRefresher
    /\ ranking = NoRanking
    /\ call = NoCall

\* clusterArticles([article]), no store call rejected
Assign(article) ==
    /\ budget.steps < MaxSteps
    /\ budget' = [budget EXCEPT !.steps = @ + 1]
    /\ \E r \in {clusterOne(Store, article, now, "none")} :
           /\ stories' = r.stories
           /\ storySources' = r.storySources
           /\ sources' = r.sources
           /\ call' = [op |-> "clusterArticles", article |-> article,
                       results |-> Tally(NoResults, r.outcome)]
    /\ UNCHANGED <<now, cluster, adders, refresher, ranking>>

NextMatch ==
    \/ \E article \in MatchArticles : Assign(article)
    \/ \E d \in AssignTicks : Tick(d)

SpecMatch == InitMatch /\ [][NextMatch]_vars

\* C23 (as amended): an assign of an article that has no row yet creates no
\* new story if and only if some story of the article's category with
\* firstSeen within the last 48 hours has titleSimilarity to the article
\* strictly greater than 0.65 (exactly 0.65 creates a new story); the story
\* chosen is the first one in store order among the candidates with the
\* maximum similarity, never a story of another category or older than 48
\* hours, and the article is attached to it (gets a row of that story)
\* unless the story already has a row of the article's source.
C23_MatchedIffCandidate ==
    [][(/\ budget'.steps = budget.steps + 1
        /\ call'.op = "clusterArticles"
        /\ RowsOfArticle(storySources, call'.article._id) = 0)
       => LET article == call'.article
              sim(i) == calculateTitleSimilarity(article.title, stories[i].canonicalTitle)
              candidates == {i \in 1..Len(stories) :
                                /\ stories[i].category = article.category
                                /\ stories[i].firstSeen >= now - 48
                                /\ RLt(Rat(65, 100), sim(i))}
              best == {i \in candidates : \A j \in candidates : RLe(sim(j), sim(i))}
              added == storySources' \ storySources
          IN  /\ candidates # {} <=> Len(stories') = Len(stories)
              /\ candidates = {} =>
                     /\ Len(stories') = Len(stories) + 1
                     /\ \E r \in added : /\ added = {r}
                                         /\ r.articleId = article._id
                                         /\ r.storyId = Len(stories')
              /\ candidates # {} =>
                     \E chosen \in best :
                         /\ \A j \in best : chosen <= j
                         /\ \A r \in added : /\ r.articleId = article._id
                                             /\ r.storyId = chosen
                         /\ added = {} <=>
                                \E r \in storySources : /\ r.storyId = chosen
                                                        /\ r.sourceName = article.source]_vars

\* C23: assign attaches an article to an existing story if and only if
\* some story of the article's category with firstSeen within the last 48
\* hours has titleSimilarity to the article strictly greater than 0.65; the
\* story chosen is the first one in store order among the candidates with
\* the maximum similarity, and a story of another category or older than
\* 48 hours is never chosen.
C23_AttachedIffCandidate ==
    [][(/\ budget'.steps = budget.steps + 1
        /\ call'.op = "clusterArticles"
        /\ RowsOfArticle(storySources, call'.article._id) = 0)
       => LET article == call'.article
              sim(i) == calculateTitleSimilarity(article.title, stories[i].canonicalTitle)
              candidates == {i \in 1..Len(stories) :
                                /\ stories[i].category = article.category
                                /\ stories[i].firstSeen >= now - 48
                                /\ RLt(Rat(65, 100), sim(i))}
              best == {i \in candidates : \A j \in candidates : RLe(sim(j), sim(i))}
              attached == {r.storyId : r \in {q \in storySources' :
                                                 /\ q.articleId = article._id
                                                 /\ q.storyId \in 1..Len(stories)}}
          IN  /\ attached # {} <=> candidates # {}
              /\ \A chosen \in attached : /\ chosen \in best
                                          /\ \A j \in best : chosen <= j]_vars

\* three articles were assigned to the four stored stories: one got a row
\* of the second story, the first of the two stories it is most similar to
\* (3/4), though the first story is a candidate too; one of another
\* category and one exactly 0.65 similar to the fourth story each made a
\* new story
C23_FirstBestChosenAndBoundaryNew ==
    LET article(id) == CHOOSE a \in MatchArticles : a._id = id
        sim(id, i) == calculateTitleSimilarity(article(id).title, stories[i].canonicalTitle)
    IN  /\ Len(stories) = Len(MatchArchive) + 2
        /\ \E r \in storySources : r.articleId = 311 /\ r.storyId = 2 /\ ~r.isPrimary
        /\ RLt(SIMILARITY_THRESHOLD, sim(311, 1))
        /\ RLt(sim(311, 1), sim(311, 2))
        /\ sim(311, 3) = sim(311, 2)
        /\ \E r \in storySources : r.articleId = 312 /\ r.storyId > Len(MatchArchive)
        /\ \E r \in storySources : r.articleId = 315 /\ r.storyId > Len(MatchArchive)
        /\ sim(315, 4) = SIMILARITY_THRESHOLD

(***************************************************************************)
(* processUnclusteredArticles run again and again over the stored News,    *)
(* with no new article arriving and no store call rejected.  The runs are  *)
(* started by POST /api/stories/cluster, at any time: every run that is    *)
(* started finishes and another one follows, while nothing makes time pass *)
(* between two runs.                                                       *)
(***************************************************************************)
\* .sort({publishedAt: -1}): newest first; articles of one date come in
\* either order (tie)
RECURSIVE NewestPublishedFirst(_, _)
NewestPublishedFirst(ids, tie) ==
    IF ids = {} THEN <<>>
    ELSE LET newest == {a \in ids : \A b \in ids : News[b].publishedAt <= News[a].publishedAt}
         IN  CHOOSE sorted \in
                 {<<head>> \o NewestPublishedFirst(ids \ {head}, tie) :
                     head \in {a \in newest :
                                  \A b \in newest : IF tie = "natural" THEN a <= b
                                                    ELSE a >= b}} : TRUE

\* News.find({_id: {$nin: StorySource.distinct('articleId')}}).sort().limit(100)
unclusteredArticles(rows, tie) ==
    FirstN(NewestPublishedFirst({a \in DOMAIN News : RowsOfArticle(rows, a) = 0}, tie), 100)

\* processUnclusteredArticles is called: it returns {processed: 0} or goes
\* on to clusterArticles(unclusteredArticles)
RunStart(tie) ==
    /\ cluster.pc # "loop"
    /\ \E found \in {unclusteredArticles(storySources, tie)} :
           /\ call' = [op |-> "processUnclusteredArticles", unclustered |-> Len(found)]
           /\ cluster' = IF found = <<>>
                         THEN [cluster EXCEPT !.pc = "returned", !.results = NoResults,
                                              !.storiesAtCall = Len(stories), !.n = 0]
                         ELSE [pc |-> "loop", articles |-> found, i |-> 1,
                               results |-> NoResults, storiesAtCall |-> Len(stories),
                               n |-> Len(found)]
    /\ UNCHANGED <<stories, storySources, sources, now, budget, adders, refresher, ranking>>

\* one iteration of the loop of clusterArticles
RunArticle ==
    /\ cluster.pc = "loop"
    /\ cluster.i <= Len(cluster.articles)
    /\ \E r \in {clusterOne(Store, News[cluster.articles[cluster.i]], now, "none")} :
           /\ stories' = r.stories
           /\ storySources' = r.storySources
           /\ sources' = r.sources
           /\ cluster' = [cluster EXCEPT !.i = @ + 1,
                                         !.results = Tally(@, r.outcome)]
    /\ UNCHANGED <<now, budget, adders, refresher, ranking, call>>

\* the hours that may pass between two runs
RunTicks == {12, 24}

NextRuns ==
    \/ \E tie \in {"natural", "reverse"} : RunStart(tie)
    \/ RunArticle
    \/ ReturnResults
    \/ \E d \in RunTicks : Tick(d)

\* the loop of clusterArticles goes on while an article is left: weak
\* fairness of RunArticle, with its enabling condition written out
\* (RunArticle is enabled exactly when the loop has an article left, and
\* every RunArticle step changes cluster.i)
RunArticleFair ==
    \/ []<>~(cluster.pc = "loop" /\ cluster.i <= Len(cluster.articles))
    \/ []<><<RunArticle>>_vars

\* every run that is started finishes, and another run follows; nothing
\* forces time to pass (no fairness on Tick)
SpecRuns ==
    /\ Init
    /\ [][NextRuns]_vars
    /\ WF_vars(\E tie \in {"natural", "reverse"} : RunStart(tie))
    /\ RunArticleFair
    /\ WF_vars(ReturnResults)

InitSameSource ==
    /\ \E r \in {createStoryFromArticle([stories |-> <<>>, storySources |-> {},
                                           sources |-> {}], News[2], StartHour, "none")} :
           /\ stories = r.stories
           /\ storySources = r.storySources
           /\ sources = r.sources
    /\ now = StartHour
    /\ budget = [steps |-> 1, faults |-> 0]
    /\ cluster = [pc |-> "returned", articles |-> <<>>, i |-> 0,
                  results |-> [NoResults EXCEPT !.newStories = 1],
                  storiesAtCall |-> 0, n |-> 1]
    /\ adders = [p \in Adders |-> IdleAdder]
    /\ refresher = IdleRefresher
    /\ ranking = NoRanking
    /\ call = NoCall

SpecSameSource == InitSameSource /\ [][NextConc]_vars

\* C26: the uniqueness of (storyId, sourceName) also holds when two
\* addArticleToStory calls for the same story and the same sourceName, with
\* two different articles, interleave: at most one StorySource row exists
\* for that pair.
C26_OneRowWhenInterleaved ==
    \A s \in 1..Len(stories) : \A p \in Adders :
        adders[p].storyId = s
        => Cardinality({r \in storySources :
                           /\ r.storyId = s
                           /\ r.sourceName = News[adders[p].article].source}) <= 1

\* C27: the counts clusterArticles returns match what the batch did:
\* newStories is the number of Story records the batch created and
\* mergedArticles is the number of non-primary StorySource rows the batch
\* created (stated for every iteration of the loop, the counts and the
\* store both starting from the state at the call).
C27_CountsMatchBatch ==
    [][(/\ cluster.pc = "loop"
        /\ cluster'.i = cluster.i + 1)
       => /\ cluster'.results.newStories - cluster.results.newStories
                 = Len(stories') - Len(stories)
          /\ cluster'.results.mergedArticles - cluster.results.mergedArticles
                 = Cardinality({r \in storySources' \ storySources : ~r.isPrimary})]_vars

(***************************************************************************)
(* Decision maker (part_003): makeDecision.  The call record holds the     *)
(* position of the running call, the number of axios.post calls it has     *)
(* made, and the in-memory decisionCache.  The endpoint may answer any     *)
(* post with a generated text, with status 503 (model loading), or with    *)
(* another failure (410, timeout, malformed body).                         *)
(***************************************************************************)
\* the posts one makeDecision call is followed for
MaxPosts == 3

\* CACHE_TTL_MS, in hours
CACHE_TTL_HOURS == 1

\* response.data[0]?.generated_text || ''
ModelOutputs ==
    {<<"process">>, <<"skip">>, <<"cache">>, <<>>,
     <<"i", "would", "skip", "or", "process">>,
     <<"cache", "or", "skip">>,
     <<"cached", "story">>,
     <<"unclear">>}

\* the tokens cleaned.includes(word) finds the word in
IncludesWord(output, word) ==
    \E k \in 1..Len(output) :
        output[k] \in (CASE word = "process" -> {"process", "processing"}
                         [] word = "skip" -> {"skip", "skipped"}
                         [] word = "cache" -> {"cache", "cached"})

\* parseDecision(output)
parseDecision(output) ==
    IF output = <<"process">> THEN "PROCESS"
    ELSE IF output = <<"skip">> THEN "SKIP"
    ELSE IF output = <<"cache">> THEN "CACHE"
    ELSE IF IncludesWord(output, "process") THEN "PROCESS"
    ELSE IF IncludesWord(output, "skip") THEN "SKIP"
    ELSE IF IncludesWord(output, "cache") THEN "CACHE"
    ELSE "PROCESS"

\* md5 of the first 500 characters of `${title}|${content}`: the texts
\* below are shorter, and distinct texts have distinct hashes
generateContentHash(title, content) == <<title, content>>

\* the decisionCache Map (MAX_CACHE_SIZE entries are never reached)
decisionCache == IF call.op = "makeDecision" THEN call.cache ELSE {}

\* checkCache(title, content): the cached decision, or null
checkCache(cache, title, content, clock) ==
    LET hits == {c \in cache : /\ c.hash = generateContentHash(title, content)
                               /\ clock - c.timestamp < CACHE_TTL_HOURS}
    IN  IF hits = {} THEN "null" ELSE (CHOOSE c \in hits : TRUE).decision

\* cacheDecision(title, content, decision)
cacheDecision(cache, title, content, decision, clock) ==
    {c \in cache : c.hash # generateContentHash(title, content)}
        \cup {[hash |-> generateContentHash(title, content), decision |-> decision,
               timestamp |-> clock]}

\* makeDecision up to its first await: isEnabled, checkCache, axios.post
makeDecisionEnter(title, content, enabled, cache, posts, clock) ==
    LET frame == [op |-> "makeDecision", title |-> title, content |-> content,
                  enabled |-> enabled, cache |-> cache, posts |-> posts,
                  pc |-> "returned", result |-> "PROCESS"]
        cachedDecision == checkCache(cache, title, content, clock)
    IN  IF ~enabled THEN frame
        ELSE IF cachedDecision # "null"
        THEN [frame EXCEPT !.result = IF cachedDecision = "PROCESS" THEN "CACHE"
                                      ELSE cachedDecision]
        ELSE [frame EXCEPT !.pc = "post", !.posts = posts + 1, !.result = "none"]

\* the articles decisions are asked for
DecisionArticles ==
    {<<<<"senate", "passes", "infrastructure", "bill">>, <<>>>>,
     <<<<"celebrity", "wedding", "photos">>, <<>>>>}

\* decisionMakerService.makeDecision(title, content) is called
MakeDecision(title, content, enabled) ==
    /\ call.op = "makeDecision" => call.pc = "returned"
    /\ call' = makeDecisionEnter(title, content, enabled, decisionCache, 0, now)
    /\ UNCHANGED <<stories, storySources, sources, now, cluster, budget, adders,
                   refresher, ranking>>

\* the post resolves: parseDecision, cacheDecision, return decision
PostResolves(output) ==
    /\ call.op = "makeDecision"
    /\ call.pc = "post"
    /\ call' = [call EXCEPT !.pc = "returned",
                            !.result = parseDecision(output),
                            !.cache = cacheDecision(@, call.title, call.content,
                                                    parseDecision(output), now)]
    /\ UNCHANGED <<stories, storySources, sources, now, cluster, budget, adders,
                   refresher, ranking>>

\* the post is rejected with status 503: sleep
PostRejectsLoading ==
    /\ call.op = "makeDecision"
    /\ call.pc = "post"
    /\ call.posts < MaxPosts
    /\ call' = [call EXCEPT !.pc = "sleep"]
    /\ UNCHANGED <<stories, storySources, sources, now, cluster, budget, adders,
                   refresher, ranking>>

\* the post is rejected otherwise: return heuristicDecision(title, content)
PostRejects ==
    /\ call.op = "makeDecision"
    /\ call.pc = "post"
    /\ call' = [call EXCEPT !.pc = "returned",
                            !.result = heuristicDecision(call.title, call.content)]
    /\ UNCHANGED <<stories, storySources, sources, now, cluster, budget, adders,
                   refresher, ranking>>

\* the sleep is over: return decisionMakerService.makeDecision(title, content)
SleepOver ==
    /\ call.op = "makeDecision"
    /\ call.pc = "sleep"
    /\ call' = makeDecisionEnter(call.title, call.content, call.enabled, call.cache,
                                 call.posts, now)
    /\ UNCHANGED <<stories, storySources, sources, now, cluster, budget, adders,
                   refresher, ranking>>

\* the hours that may pass between two decisions
DecisionTicks == {36}

NextDecision ==
    \/ \E article \in DecisionArticles : \E enabled \in BOOLEAN :
           MakeDecision(article[1], article[2], enabled)
    \/ \E output \in ModelOutputs : PostResolves(output)
    \/ PostRejectsLoading
    \/ PostRejects
    \/ SleepOver
    \/ \E d \in DecisionTicks : Tick(d)

SpecDecision == Init /\ [][NextDecision]_vars

\* C29: makeDecision retries at most once on a 503 answer: after a second
\* 503 it stops calling the endpoint (one call makes at most two posts) and
\* returns a decision, which is always PROCESS, SKIP or CACHE.
C29_RetriesAtMostOnce ==
    call.op = "makeDecision" =>
        /\ call.posts <= 2
        /\ call.pc = "sleep" => call.posts < 2
        /\ call.pc = "returned" => call.result \in {"PROCESS", "SKIP", "CACHE"}

(***************************************************************************)
(* The two importance implementations on one stored story: the story of    *)
(* InitScore is rescored by Story.recalculateImportance and scored by      *)
(* calmRankingService.calculateImportanceScore as time passes              *)
(***************************************************************************)
\* Story.recalculateImportance(storyId) at Date.now() = now
RecalculateStory ==
    /\ stories' = recalculateImportance(stories, 1, now)
    /\ call' = [op |-> "recalculateImportance", storyId |-> 1, at |-> now]
    /\ UNCHANGED <<storySources, sources, now, cluster, budget, adders, refresher,
                   ranking>>

NextAgree ==
    \/ RecalculateStory
    \/ ScoreStory
    \/ HalfDay

SpecAgree == InitScore /\ [][NextAgree]_vars

\* C28: the two importance implementations agree: the value
\* Story.recalculateImportance persists equals what
\* calmRankingService.calculateImportanceScore returns for the same story
\* at the same time, so a refresh right after a recalculation finds no
\* difference (none above its 0.01 threshold).
C28_ImplementationsAgree ==
    (call.op = "recalculateImportance" /\ call.at = now)
    => /\ stories[1].importanceScore = calculateImportanceScore(stories[1], now)
       /\ ~RLt(Rat(1, 100),
               RAbs(RSub(stories[1].importanceScore,
                         calculateImportanceScore(stories[1], now))))

(***************************************************************************)
(* calculateTitleSimilarity as a function of two titles                    *)
(***************************************************************************)
\* titles of the articles above, rewordings of them, and headlines that
\* repeat a phrase
ComparedTitles ==
    DraftTitles \cup
    {News[3].title,
     News[5].title,
     <<"tax", "cut", "plan", "fails", "senate", "vote">>,
     <<"tax", "cut", "plan", "tax", "cut", "plan", "passes">>,
     <<"new", "york", "new", "york", "new", "mayor", "sworn">>,
     <<"new", "york", "new", "mayor", "takes", "office">>}

\* clusteringService.calculateTitleSimilarity(title1, title2)
TitleSimilarity(title1, title2) ==
    /\ call' = [op |-> "calculateTitleSimilarity", title1 |-> title1,
                title2 |-> title2,
                result |-> calculateTitleSimilarity(title1, title2)]
    /\ UNCHANGED <<stories, storySources, sources, now, cluster, budget, adders,
                   refresher, ranking>>

NextTitles ==
    \E title1 \in ComparedTitles : \E title2 \in ComparedTitles :
        TitleSimilarity(title1, title2)

SpecTitles == Init /\ [][NextTitles]_vars

\* C30: titleSimilarity is symmetric: calculateTitleSimilarity(a, b)
\* = calculateTitleSimilarity(b, a) for all titles a and b.
C30_TitleSimilarityIsSymmetric ==
    call.op = "calculateTitleSimilarity" =>
        call.result = calculateTitleSimilarity(call.title2, call.title1)

=============================================================================
